---- MODULE Spec2Model ----
(***************************************************************************)
(* Command Execution Gateway of the IT help-desk bot:                      *)
(*   config.py                      policy tables and numeric settings     *)
(*   modules/security.py            SecurityValidator                      *)
(*   modules/system_commands.py     SystemCommands (executor, cache,       *)
(*                                  credential slot)                       *)
(*   modules/automated_diagnostics.py  AutomatedDiagnostics                *)
(*   app.py                         the HTTP routes that call them         *)
(*                                                                         *)
(* Python strings are TLA+ strings; Len, \o and SubSeq act on them, and    *)
(* the string helpers below are written with these three.                  *)
(***************************************************************************)
EXTENDS Integers, Sequences, FiniteSets, TLC

\* ------------------------------------------------------------ strings

CharAt(s, i) == SubSeq(s, i, i)

\* Python: p in s
Contains(s, p) ==
    \E i \in 1..(Len(s) - Len(p) + 1) : SubSeq(s, i, i + Len(p) - 1) = p

\* Python: s.startswith(p)
StartsWith(s, p) == Len(p) <= Len(s) /\ SubSeq(s, 1, Len(p)) = p

UpperChars == "ABCDEFGHIJKLMNOPQRSTUVWXYZ"
LowerChars == "abcdefghijklmnopqrstuvwxyz"

UpperToLower ==
    [c \in { CharAt(UpperChars, i) : i \in 1..Len(UpperChars) } |->
        CharAt(LowerChars, CHOOSE i \in 1..Len(UpperChars) : CharAt(UpperChars, i) = c)]

LowerChar(c) == IF c \in DOMAIN UpperToLower THEN UpperToLower[c] ELSE c

RECURSIVE Lower(_)
\* Python: s.lower()
Lower(s) ==
    IF s = "" THEN "" ELSE LowerChar(CharAt(s, 1)) \o Lower(SubSeq(s, 2, Len(s)))

IsSpace(c) == c \in {" ", "\t", "\n", "\r"}

RECURSIVE LStrip(_)
LStrip(s) ==
    IF s # "" /\ IsSpace(CharAt(s, 1)) THEN LStrip(SubSeq(s, 2, Len(s))) ELSE s

RECURSIVE RStrip(_)
RStrip(s) ==
    IF s # "" /\ IsSpace(CharAt(s, Len(s))) THEN RStrip(SubSeq(s, 1, Len(s) - 1)) ELSE s

\* Python: s.strip()
Strip(s) == RStrip(LStrip(s))

Range(seq) == { seq[i] : i \in 1..Len(seq) }

\* ------------------------------------------------------------ config.py

\* Config, config.py lines 49-93
WINDOWS_COMMANDS ==
    << "ipconfig", "ping", "nslookup", "netstat", "tracert", "route", "arp", "getmac",
       "netsh", "netstat -an", "ipconfig /flushdns", "systeminfo", "tasklist", "sfc",
       "chkdsk", "dir", "type", "echo", "wmic", "systeminfo", "ver", "hostname",
       "whoami", "pwd", "wmic printer list brief",
       "wmic logicaldisk get size,freespace,caption", "wmic cpu get name",
       "wmic memorychip get capacity", "wmic bios get version",
       "wmic path win32_pnpentity get name,status", "devmgmt.msc",
       "wmic sounddev get name", "wmic diskdrive get size", "tasklist /v",
       "wmic process get name,processid,workingsetsize", "wmic cpu get loadpercentage",
       "perfmon", "resmon", "sfc /scannow",
       "DISM /Online /Cleanup-Image /RestoreHealth", "wmic qfe get hotfixid",
       "gpresult /r", "dir C:\\ /s", "tree", "attrib", "copy", "move", "del",
       "sc query", "net start", "net stop", "services.msc", "reg query", "reg add",
       "reg delete", "net user", "net localgroup", "whoami /all", "wevtutil qe system",
       "wevtutil qe application", "powercfg /list", "powercfg /query",
       "netsh wlan show profiles", "netsh interface show interface",
       "netsh advfirewall show allprofiles" >>

\* Config, config.py lines 95-163
MACOS_COMMANDS ==
    << "ifconfig", "ping", "nslookup", "netstat", "traceroute", "route", "arp",
       "networksetup", "scutil", "airport", "netstat -an", "system_profiler", "ps",
       "df", "free", "ls", "cat", "echo", "uname", "hostname", "whoami", "pwd",
       "sw_vers", "system_profiler SPHardwareDataType",
       "system_profiler SPUSBDataType", "system_profiler SPAudioDataType",
       "system_profiler SPDisplaysDataType", "ioreg", "diskutil list", "diskutil info",
       "ps aux --sort=-%cpu | head -20", "top -l 1", "vm_stat", "iostat", "netstat -i",
       "lsof -i", "sudo /usr/libexec/repair_packages --verify",
       "system_profiler SPSoftwareDataType",
       "sudo /usr/libexec/repair_packages --verify --standard-pkgs", "ls -la",
       "du -sh", "find", "cp", "mv", "rm", "launchctl list", "sudo launchctl load",
       "sudo launchctl unload", "dscl . list /Users", "id", "groups", "log show",
       "sudo log show --predicate", "pmset -g", "pmset -g therm", "pmset -g batt",
       "networksetup -listallnetworkservices", "networksetup -getinfo",
       "sudo dscacheutil -flushcache", "sudo killall -HUP mDNSResponder",
       "sudo system_profiler", "sudo diskutil", "sudo ioreg", "sudo networksetup",
       "sudo launchctl", "sudo dscacheutil", "sudo killall", "sudo repair_packages",
       "sudo log show", "sudo pmset", "sudo iostat", "sudo vm_stat", "lpstat -p",
       "lpstat -a", "lpstat -d", "system_profiler SPPrintersDataType",
       "system_profiler SPAudioDataType", "system_profiler SPAudioDevicesDataType",
       "system_profiler SPBluetoothDataType",
       "sudo /usr/libexec/ApplicationFirewall/socketfilterfw", "csrutil status",
       "spctl --status", "system_profiler SPInstallHistoryDataType" >>

\* Config, config.py lines 165-204
LINUX_COMMANDS ==
    << "ifconfig", "ping", "nslookup", "ps", "df", "free", "netstat", "traceroute",
       "route", "arp", "ip addr", "uname", "uptime", "who", "w", "top", "ls", "cat",
       "echo", "ps aux", "df -h", "free -h", "lscpu", "lsmem", "lspci", "lsusb",
       "lshw", "cat /proc/cpuinfo", "cat /proc/meminfo",
       "ps aux --sort=-%cpu | head -20", "top -n 1", "vmstat", "iostat", "netstat -i",
       "sudo apt update", "sudo apt upgrade", "sudo clamscan --recursive",
       "sudo chkrootkit", "sudo rkhunter --check", "ls -la", "du -sh", "find", "cp",
       "mv", "rm", "systemctl status", "systemctl list-units", "service --status-all",
       "cat /etc/passwd", "id", "groups", "who", "journalctl", "dmesg",
       "tail -f /var/log/syslog",
       "upower -i /org/freedesktop/UPower/devices/battery_BAT0", "nmcli device status",
       "nmcli connection show", "systemctl restart systemd-resolved" >>

\* Config, config.py lines 207-212
BLOCKED_PATTERNS ==
    << "rm -rf", "del /s", "format", "fdisk", "dd", "sudo", "su", "chmod 777",
       "chown root", "wget", "curl", "nc", "telnet", "ssh", "> /dev/", ">> /dev/",
       "| bash", "| sh" >>


\* Config.COMMAND_TIMEOUT, config.py line 24
COMMAND_TIMEOUT == 30
\* Config.MAX_COMMAND_OUTPUT, config.py line 25
MAX_COMMAND_OUTPUT == 10000
\* Config.QUICK_COMMAND_TIMEOUT, config.py line 28
QUICK_COMMAND_TIMEOUT == 10
\* Config.MEDIUM_COMMAND_TIMEOUT, config.py line 29
MEDIUM_COMMAND_TIMEOUT == 15
\* Config.SLOW_COMMAND_TIMEOUT, config.py line 30
SLOW_COMMAND_TIMEOUT == 30

\* Python's None, as a value of its own among the strings of the model
None == "<None>"

\* Python truthiness of an optional string: None and '' are false
Truthy(x) == x # None /\ x # ""

\* platform.system().lower() on the three supported families
OsFamilies == {"windows", "darwin", "linux"}

\* OSDetector.is_macos
is_macos(system) == system = "darwin"

\* ------------------------------------------------------------ modules/security.py

\* the backquote character: a TLA+ string cannot hold it, so the model writes it ^
\* in dangerous_operators and in the command texts alike
Backquote == "^"

dangerous_operators ==
    << "&&", "||", ";", "|", ">", ">>", "<", "<<", Backquote, "$(" >>
traversal_patterns == << "../", "..\\", "/etc/", "/var/", "/usr/", "C:\\Windows\\" >>
network_dangerous == << "nc", "netcat", "telnet", "ssh", "wget", "curl", "ftp" >>
privilege_patterns == << "sudo", "su", "runas", "elevate", "admin" >>

\* the approved list validate_command_for_os uses for every other OS name
linux_subset ==
    << "ifconfig", "ping", "nslookup", "ps", "netstat", "df", "free", "uptime",
       "who", "w", "ls", "cat" >>

\* s contains an entry of patterns, each entry lower-cased first
ContainsAnyLowered(s, patterns) ==
    \E i \in 1..Len(patterns) : Contains(s, Lower(patterns[i]))

\* s contains an entry of patterns, as written
ContainsAny(s, patterns) ==
    \E i \in 1..Len(patterns) : Contains(s, patterns[i])

\* s starts with an entry of prefixes, as written
StartsWithAny(s, prefixes) ==
    \E i \in 1..Len(prefixes) : StartsWith(s, prefixes[i])

\* SecurityValidator.is_command_safe
is_command_safe(command) ==
    IF command = "" THEN FALSE
    ELSE LET command_lower == Strip(Lower(command)) IN
         /\ ~ContainsAnyLowered(command_lower, BLOCKED_PATTERNS)
         /\ ~ContainsAny(command, dangerous_operators)
         /\ ~ContainsAnyLowered(command_lower, traversal_patterns)
         /\ ~ContainsAny(command_lower, network_dangerous)
         /\ ~ContainsAny(command_lower, privilege_patterns)

\* validate_command_for_os without the test of the approved prefixes
validate_command_for_os_any_prefix(command, os_type) == is_command_safe(command)

\* SecurityValidator.validate_command_for_os
validate_command_for_os(command, os_type) ==
    IF ~is_command_safe(command) THEN FALSE
    ELSE LET command_lower == Strip(Lower(command))
             approved_commands ==
                 IF Lower(os_type) = "windows" THEN WINDOWS_COMMANDS
                 ELSE IF Lower(os_type) \in {"macos", "darwin"} THEN MACOS_COMMANDS
                 ELSE linux_subset
         IN StartsWithAny(command_lower, approved_commands)

\* ------------------------------------------------------------ modules/system_commands.py

\* the table _is_command_safe picks for self.os_type
allowed_commands(os_type) ==
    IF os_type = "windows" THEN WINDOWS_COMMANDS
    ELSE IF os_type = "darwin" THEN MACOS_COMMANDS
    ELSE LINUX_COMMANDS

\* _is_command_safe with the approved prefixes tested before the blocked patterns
_is_command_safe_allow_first(command, os_type) ==
    StartsWithAny(Lower(command), allowed_commands(os_type))

\* SystemCommands._is_command_safe, with self.os_type as a parameter
_is_command_safe(command, os_type) ==
    LET command_lower == Lower(command) IN
    /\ ~ContainsAny(command_lower, BLOCKED_PATTERNS)
    /\ StartsWithAny(command_lower, allowed_commands(os_type))

\* SystemCommands.cache_timeout, system_commands.py line 19
cache_timeout == 30

\* the first entry of patterns that s contains (the one the for loop stops at)
FirstContained(s, patterns) ==
    patterns[CHOOSE i \in 1..Len(patterns) :
                 /\ Contains(s, patterns[i])
                 /\ \A j \in 1..(i - 1) : ~Contains(s, patterns[j])]

\* what _is_command_safe writes to the log
_is_command_safe_logs(command, os_type) ==
    LET command_lower == Lower(command) IN
    IF ContainsAny(command_lower, BLOCKED_PATTERNS)
    THEN << "Blocked command pattern detected: "
            \o FirstContained(command_lower, BLOCKED_PATTERNS) >>
    ELSE IF StartsWithAny(command_lower, allowed_commands(os_type))
    THEN << >>
    ELSE << "Command not in allowed list: " \o command >>

\* _get_command_timeout with the medium tokens tried before the quick ones
_get_command_timeout_medium_first(command, os_type) ==
    LET command_lower == Lower(command) IN
    IF ContainsAny(command_lower, << "tasklist", "ps", "df", "free", "uname" >>)
    THEN MEDIUM_COMMAND_TIMEOUT
    ELSE IF ContainsAny(command_lower,
                        << "ping", "nslookup", "ipconfig", "ifconfig", "echo" >>)
    THEN QUICK_COMMAND_TIMEOUT
    ELSE COMMAND_TIMEOUT

\* SystemCommands._get_command_timeout
_get_command_timeout(command, os_type) ==
    LET command_lower == Lower(command) IN
    IF ContainsAny(command_lower, << "ping", "nslookup", "ipconfig", "ifconfig", "echo" >>)
    THEN QUICK_COMMAND_TIMEOUT
    ELSE IF ContainsAny(command_lower, << "tasklist", "ps", "df", "free", "uname" >>)
    THEN MEDIUM_COMMAND_TIMEOUT
    ELSE IF ContainsAny(command_lower, << "systeminfo", "system_profiler", "sfc", "chkdsk" >>)
    THEN SLOW_COMMAND_TIMEOUT
    ELSE IF os_type = "darwin"
            /\ ContainsAny(command_lower, << "system_profiler", "diskutil", "ioreg" >>)
    THEN SLOW_COMMAND_TIMEOUT
    ELSE COMMAND_TIMEOUT

\* SystemCommands._is_quick_command
_is_quick_command(command, os_type) ==
    LET command_lower == Lower(command)
        quick_commands ==
            << "ping", "nslookup", "ipconfig", "ifconfig", "echo", "uname", "df" >>
            \o (IF os_type = "darwin"
                THEN << "hostname", "whoami", "pwd", "sw_vers" >> ELSE << >>)
    IN ContainsAny(command_lower, quick_commands)

\* SystemCommands._requires_sudo
_requires_sudo(command, os_type) ==
    IF os_type # "darwin" THEN FALSE
    ELSE ContainsAny(Lower(command),
             << "sudo", "system_profiler", "diskutil", "ioreg", "launchctl",
                "dscacheutil", "killall", "repair_packages", "log show" >>)

\* the key without the require_sudo flag
cache_key_without_flag(command, os_type, require_sudo) == command \o "_" \o os_type

\* f"{command}_{self.os_type}_{require_sudo}"
cache_key(command, os_type, require_sudo) ==
    command \o "_" \o os_type \o "_" \o (IF require_sudo THEN "True" ELSE "False")

\* the freshness test with <= for <
cache_entry_fresh_inclusive(entry, t) == t - entry.timestamp <= cache_timeout

\* the freshness test with > for <
cache_entry_fresh_reversed(entry, t) == t - entry.timestamp > cache_timeout

\* time.time() - cache_entry['timestamp'] < self.cache_timeout
cache_entry_fresh(entry, t) == t - entry.timestamp < cache_timeout

\* the age of the entry stored under key at time t, -1 when there is none
entry_age(command_cache, key, t) ==
    IF key \in DOMAIN command_cache THEN t - command_cache[key].timestamp ELSE -1

\* the rejection reported as a failure of the command itself
rejected_result_as_failure ==
    [success |-> FALSE, output |-> "", error |-> "Command execution failed: not allowed"]

\* the result returned when validation fails
rejected_result ==
    [success |-> FALSE,
     output |-> "Command not allowed for security reasons",
     error |-> "Security validation failed"]

\* the result returned on macOS when elevation is asked for and no password is stored
password_required_result ==
    [success |-> FALSE,
     output |-> "",
     error |-> "Sudo password required for this command. Please provide your password.",
     requires_password |-> TRUE]

\* the test of the credential left out
password_missing_never(sudo_password) == FALSE

\* not self.sudo_password
password_missing(sudo_password) == ~Truthy(sudo_password)

\* f"echo '{self.sudo_password}' | sudo -S {command}"
elevated_command(command, sudo_password) ==
    "echo '" \o sudo_password \o "' | sudo -S " \o command

\* the timeout reported as Config.COMMAND_TIMEOUT, whatever timeout was enforced
timeout_result_default(timeout) ==
    [success |-> FALSE,
     output |-> "",
     error |-> "Command timed out after " \o ToString(COMMAND_TIMEOUT) \o " seconds"]

\* the result returned on subprocess.TimeoutExpired
timeout_result(timeout) ==
    [success |-> FALSE,
     output |-> "",
     error |-> "Command timed out after " \o ToString(timeout) \o " seconds"]

\* the exception left to propagate: the caller gets no result dict
failure_result_raised(message) ==
    [raised |-> "Command execution failed: " \o message]

\* the result returned on any other exception
failure_result(message) ==
    [success |-> FALSE,
     output |-> "",
     error |-> "Command execution failed: " \o message]

\* the output cut to Config.MAX_COMMAND_OUTPUT with nothing appended
truncate_output_silent(output) ==
    IF Len(output) > MAX_COMMAND_OUTPUT
    THEN SubSeq(output, 1, MAX_COMMAND_OUTPUT)
    ELSE output

\* the truncation of result.stdout
truncate_output(output) ==
    IF Len(output) > MAX_COMMAND_OUTPUT
    THEN SubSeq(output, 1, MAX_COMMAND_OUTPUT) \o "\n... (output truncated)"
    ELSE output

\* result_data of a subprocess that ended by itself at time t
result_data(run, t) ==
    [success |-> run.returncode = 0,
     output |-> truncate_output(run.stdout),
     error |-> IF run.stderr # "" THEN run.stderr ELSE None,
     return_code |-> run.returncode,
     execution_time |-> t]

\* self.command_cache[cache_key] = {'result': result_data, 'timestamp': time.time()}
cache_store(command_cache, key, result, t) ==
    [k \in DOMAIN command_cache \cup {key} |->
        IF k = key THEN [result |-> result, timestamp |-> t] ELSE command_cache[k]]


\* ------------------------------------------------------------ modules/security.py: sanitize_input

\* Config.MAX_MESSAGE_LENGTH
MAX_MESSAGE_LENGTH == 1000

\* dangerous_chars of sanitize_input
dangerous_chars == { "<", ">", "\"", "'", "&", "|", ";", Backquote, "$", "(", ")" }

RECURSIVE WithoutDangerous(_, _, _)
\* the characters lo..hi of s after sanitized.replace(char, '') for every dangerous char
WithoutDangerous(s, lo, hi) ==
    IF lo > hi THEN ""
    ELSE IF lo = hi
    THEN IF CharAt(s, lo) \in dangerous_chars THEN "" ELSE CharAt(s, lo)
    ELSE WithoutDangerous(s, lo, (lo + hi) \div 2)
         \o WithoutDangerous(s, (lo + hi) \div 2 + 1, hi)

RECURSIVE SpacesCollapsed(_, _, _)
\* the characters lo..hi of s after re.sub(r'\s+', ' ', s): a whitespace character
\* that follows another goes, one that follows none becomes a space
SpacesCollapsed(s, lo, hi) ==
    IF lo > hi THEN ""
    ELSE IF lo = hi
    THEN IF ~IsSpace(CharAt(s, lo)) THEN CharAt(s, lo)
         ELSE IF lo > 1 /\ IsSpace(CharAt(s, lo - 1)) THEN "" ELSE " "
    ELSE SpacesCollapsed(s, lo, (lo + hi) \div 2)
         \o SpacesCollapsed(s, (lo + hi) \div 2 + 1, hi)

\* the length left as it is
limit_length_never(sanitized) == sanitized

\* sanitized[:Config.MAX_MESSAGE_LENGTH] when it is longer
limit_length(sanitized) ==
    IF Len(sanitized) > MAX_MESSAGE_LENGTH
    THEN SubSeq(sanitized, 1, MAX_MESSAGE_LENGTH)
    ELSE sanitized

\* the three rewriting steps of sanitize_input, in their order
sanitize_steps(user_input) ==
    LET replaced == WithoutDangerous(user_input, 1, Len(user_input))
        collapsed == SpacesCollapsed(replaced, 1, Len(replaced))
    IN  Strip(limit_length(collapsed))

\* SecurityValidator.sanitize_input
sanitize_input(user_input) ==
    IF ~Truthy(user_input) THEN "" ELSE sanitize_steps(user_input)

\* ------------------------------------------------------------ bounds and inputs

\* the clock advances MaxTicks times at most, by half the cache lifetime each time
MaxTicks == 2
TickStep == cache_timeout \div 2

\* command texts given to execute_command and to the routes
Commands == { "ping localhost", "system_profiler | head", "rm -rf /" }

\* passwords the callers of the routes send
Secrets == { "hunter2", "tr0ub4dor" }

\* what subprocess.run can do
RunOutcomes ==
    { [kind |-> "completed", stdout |-> "up", stderr |-> "", returncode |-> 0],
      [kind |-> "completed", stdout |-> "", stderr |-> "denied", returncode |-> 1],
      [kind |-> "timeout", stdout |-> "", stderr |-> "", returncode |-> -1],
      [kind |-> "fault", stdout |-> "", stderr |-> "", returncode |-> -1] }

\* str(e) of the exception subprocess.run raises in a "fault"
FaultMessage == "[Errno 12] Cannot allocate memory"

\* the commands of the tests (tests/test_basic.py) and of the examples
TestCommands ==
    { "ping google.com", "ipconfig", "systeminfo", "nslookup google.com",
      "rm -rf /", "del /s C:\\Windows", "sudo rm -rf", "format C:",
      "wget http://malicious.com", "curl http://malicious.com",
      "echo \"test\"", "ping google.com; rm -rf /", "ipconfig /all", "ifconfig" }

\* further command texts: case, surrounding blanks, shell operators, unknown programs
ExtraCommands ==
    { "", " ", "IPCONFIG", "Ping 10.0.0.1", "  ifconfig", "ifconfig  ", "\tping localhost",
      "SUDO ls", "Echo hello && FORMAT c:", "netstat | more", "echo a; echo b",
      "echo a && echo b", "hostname || whoami", "ls > out.txt", "ls >> out.txt",
      "cat < in.txt", "cat << EOF", "echo ^id^", "echo $(id)", "cat ../secret",
      "ls /etc/", "type C:\\Windows\\win.ini", "netcat -l", "ftp example.org",
      "runas /user:x cmd", "net user admin", "shutdown /s", "python", "reboot",
      "ipconfigure", "whoami2", "lsblk", "w", "x" }

\* every command text handed to the validators
ValCommands ==
    Range(WINDOWS_COMMANDS) \cup Range(MACOS_COMMANDS) \cup Range(LINUX_COMMANDS)
    \cup Range(BLOCKED_PATTERNS)
    \cup { "ping " \o BLOCKED_PATTERNS[i] : i \in 1..Len(BLOCKED_PATTERNS) }
    \cup TestCommands \cup ExtraCommands \cup Commands


(***************************************************************************)
(* SystemCommands.execute_command is modelled in two steps, split at the   *)
(* only point where the handler waits: the call of subprocess.run.         *)
(*                                                                         *)
(* execute_command_begin is the handler from its entry to subprocess.run,  *)
(* at time t on the object self = [os_type, command_cache, sudo_password]. *)
(* Either it returns at once (returned = TRUE, with the result), or it     *)
(* calls subprocess.run (returned = FALSE, with the call it makes).        *)
(***************************************************************************)
execute_command_begin(self, command, require_sudo, t) ==
    LET key == cache_key(command, self.os_type, require_sudo)
        cache == self.command_cache
    IN
    IF key \in DOMAIN cache /\ cache_entry_fresh(cache[key], t)
    THEN [returned |-> TRUE, result |-> cache[key].result,
          logs |-> << "Using cached result for command: " \o command >>]
    ELSE IF ~_is_command_safe(command, self.os_type)
    THEN [returned |-> TRUE, result |-> rejected_result,
          logs |-> _is_command_safe_logs(command, self.os_type)]
    ELSE IF self.os_type = "darwin" /\ require_sudo /\ password_missing(self.sudo_password)
    THEN [returned |-> TRUE, result |-> password_required_result, logs |-> << >>]
    ELSE
    LET cmd == IF self.os_type = "darwin" /\ require_sudo
               THEN elevated_command(command, self.sudo_password)
               ELSE command
    IN [returned |-> FALSE, logs |-> << >>,
        spawn |-> [command |-> cmd, timeout |-> _get_command_timeout(cmd, self.os_type),
                   requested |-> command, by |-> "SystemCommands.execute_command"],
        key |-> key]

(***************************************************************************)
(* execute_command_end is the handler from the return of subprocess.run    *)
(* to its own return, at time t.  spawn and key are the call made and the  *)
(* cache key computed by execute_command_begin; run is what subprocess.run *)
(* did: it ended by itself ("completed", with stdout, stderr and           *)
(* returncode), exceeded the timeout ("timeout") or raised another         *)
(* exception ("fault", with its message).                                  *)
(***************************************************************************)
execute_command_end(command_cache, os, spawn, key, t, run) ==
    CASE run.kind = "timeout" ->
           [result |-> timeout_result(spawn.timeout), command_cache |-> command_cache,
            logs |-> << >>]
      [] run.kind = "fault" ->
           [result |-> failure_result(FaultMessage), command_cache |-> command_cache,
            logs |-> << "Error executing command '" \o spawn.command \o "': "
                        \o FaultMessage >>]
      [] OTHER ->
           LET data == result_data(run, t) IN
           [result |-> data,
            command_cache |-> IF _is_quick_command(spawn.command, os)
                              THEN cache_store(command_cache, key, data, t)
                              ELSE command_cache,
            logs |-> << >>]

\* SystemCommands.get_cache_stats at time t
get_cache_stats(command_cache, t) ==
    [total_entries |-> Cardinality(DOMAIN command_cache),
     valid_entries |->
         Cardinality({k \in DOMAIN command_cache : t - command_cache[k].timestamp < cache_timeout}),
     expired_entries |->
         Cardinality({k \in DOMAIN command_cache : ~(t - command_cache[k].timestamp < cache_timeout)}),
     cache_timeout |-> cache_timeout]

\* ------------------------------------------------------------ modules/automated_diagnostics.py

(***************************************************************************)
(* AutomatedDiagnostics.execute_command: the command text of the           *)
(* DiagnosticCommand goes to subprocess.run as it is, with a timeout of    *)
(* 30 seconds.  diagnostics_spawn is the call it makes,                    *)
(* diagnostics_execute_command_end what it returns and logs when           *)
(* subprocess.run is over.                                                 *)
(***************************************************************************)
diagnostics_spawn(command_text) ==
    [command |-> command_text, timeout |-> 30, requested |-> command_text,
     by |-> "AutomatedDiagnostics.execute_command"]

diagnostics_execute_command_end(command_text, run) ==
    CASE run.kind = "timeout" ->
           [result |-> << FALSE, "Command timed out after 30 seconds" >>, logs |-> << >>]
      [] run.kind = "fault" ->
           [result |-> << FALSE, "Error executing command: " \o FaultMessage >>,
            logs |-> << "Error executing command " \o command_text \o ": "
                        \o FaultMessage >>]
      [] OTHER ->
           [result |-> IF run.returncode = 0
                       THEN << TRUE, run.stdout >>
                       ELSE << FALSE, IF run.stderr # "" THEN run.stderr
                                      ELSE "Command failed with no error output" >>,
            logs |-> << >>]

\* ------------------------------------------------------------ state

VARIABLES
    os_type,        \* SystemCommands.os_type, fixed when the process starts
    command_cache,  \* SystemCommands.command_cache: key -> [result, timestamp]
    sudo_password,  \* SystemCommands.sudo_password
    now,            \* time.time(), in seconds since the process started
    pending,        \* the handler waiting for subprocess.run to return, if any
    last,           \* the call that has just returned: what it was given, what it
                    \* returned, the subprocess.run calls it made, what it logged
    ref,            \* an earlier execute_command call, kept for comparison
    vCommand,       \* the command text handed to the validators
    verdicts,       \* what each validator has answered for vCommand
    threads,        \* the position of each concurrent caller of SystemCommands
    request,        \* the function called on its own, with its arguments
    answer          \* what that function has returned

\* the variables of the concurrent callers and of the functions called on their own
aside == << threads, request, answer >>

vars ==
    << os_type, command_cache, sudo_password, now, pending, last, ref, vCommand, verdicts,
       aside >>

\* no handler is waiting
NoPending == [op |-> "none", stage |-> "none"]

\* no call has returned in this step
NoCall ==
    [op |-> "none", command |-> "", require_sudo |-> FALSE, result |-> << >>,
     response |-> << >>, spawned |-> << >>, logs |-> << >>, age |-> -1,
     run |-> [kind |-> "none"]]

\* no concurrent caller, no function called on its own
NoThreads == << >>
NoRequest == [fn |-> "none"]
NoAnswer == [returned |-> FALSE]

\* no earlier call is kept
NoRef == [op |-> "none"]

NoVerdicts == [security |-> "pending", for_os |-> "pending", executor |-> "pending"]

\* SystemCommands.__init__, on any of the three OS families
Init ==
    /\ os_type \in OsFamilies
    /\ command_cache = << >>
    /\ sudo_password = None
    /\ now = 0
    /\ pending = NoPending
    /\ last = NoCall
    /\ ref = NoRef
    /\ vCommand = ""
    /\ verdicts = NoVerdicts
    /\ threads = NoThreads
    /\ request = NoRequest
    /\ answer = NoAnswer

\* dict.get(key, default)
Get(dict, key, default) == IF key \in DOMAIN dict THEN dict[key] ELSE default

\* ------------------------------------------------------------ app.py

\* the three executing routes store the password of the request first, on macOS,
\* when it is not empty
password_after_request(password) ==
    IF Truthy(password) /\ is_macos(os_type) THEN password ELSE sudo_password

set_password_logs(password) ==
    IF Truthy(password) /\ is_macos(os_type)
    THEN << "Sudo password set for macOS commands" >> ELSE << >>

\* system_commands._requires_sudo(command) if os_detector.is_macos() else False
route_require_sudo(command) ==
    IF is_macos(os_type) THEN _requires_sudo(command, os_type) ELSE FALSE

\* the JSON body execute_system_command answers with
execute_system_command_response(result) ==
    IF Get(result, "requires_password", FALSE) = TRUE
    THEN [success |-> FALSE, error |-> "Sudo password required for this command",
          requires_password |-> TRUE]
    ELSE IF result.success
    THEN [success |-> TRUE, output |-> result.output]
    ELSE [success |-> FALSE, error |-> result.error]

\* the JSON body execute_gpt_command answers with
execute_gpt_command_response(result, command) ==
    [success |-> Get(result, "success", FALSE),
     output |-> Get(result, "output", ""),
     error |-> Get(result, "error", ""),
     command |-> command,
     description |-> "",
     requires_password |-> Get(result, "requires_password", FALSE)]

\* the JSON body execute_diagnostic answers with
execute_diagnostic_response(result) ==
    IF result[1]
    THEN [success |-> TRUE, output |-> result[2], command_name |-> ""]
    ELSE [success |-> FALSE, error |-> result[2], command_name |-> ""]

\* the JSON body of the caller op for what execute_command returned
response_of(op, result, command) ==
    CASE op = "/api/execute-command" -> execute_system_command_response(result)
      [] op = "/api/command/execute" -> execute_gpt_command_response(result, command)
      [] op = "/api/diagnostics/execute" -> execute_diagnostic_response(result)
      [] OTHER -> << >>


\* ------------------------------------------------------------ operations

\* no request is being handled and the last answer has been taken
Idle == pending = NoPending /\ last = NoCall

\* time passes between two requests
Tick ==
    /\ Idle
    /\ now + TickStep <= MaxTicks * TickStep
    /\ now' = now + TickStep
    /\ UNCHANGED << os_type, command_cache, sudo_password, pending, last, ref,
                    vCommand, verdicts, aside >>

(***************************************************************************)
(* The caller op enters SystemCommands.execute_command(command,            *)
(* require_sudo); prelogs are the lines op has logged before.  The handler *)
(* runs to its return or to its call of subprocess.run.                    *)
(***************************************************************************)
EnterExecuteCommand(op, command, require_sudo, prelogs) ==
    \E b \in { execute_command_begin([os_type |-> os_type,
                                      command_cache |-> command_cache,
                                      sudo_password |-> sudo_password],
                                     command, require_sudo, now) },
       age \in { entry_age(command_cache,
                           cache_key(command, os_type, require_sudo), now) } :
       IF b.returned
       THEN /\ pending' = NoPending
            /\ last' = [op |-> op, command |-> command, require_sudo |-> require_sudo,
                        result |-> b.result,
                        response |-> response_of(op, b.result, command),
                        spawned |-> << >>, logs |-> prelogs \o b.logs, age |-> age,
                        run |-> NoCall.run]
       ELSE /\ pending' = [op |-> op, stage |-> "run", command |-> command,
                           require_sudo |-> require_sudo, spawn |-> b.spawn,
                           key |-> b.key, logs |-> prelogs \o b.logs, age |-> age]
            /\ last' = NoCall

\* a direct call of SystemCommands.execute_command (as tests/test_basic.py makes)
ExecuteCommand(command, require_sudo) ==
    /\ Idle
    /\ EnterExecuteCommand("execute_command", command, require_sudo, << >>)
    /\ UNCHANGED << os_type, command_cache, sudo_password, now, ref, vCommand, verdicts, aside >>

(***************************************************************************)
(* The three executing routes begin alike: the request without a command   *)
(* is answered with 400; otherwise the password of the request is stored   *)
(* (on macOS, when it is not empty) and require_sudo is computed.          *)
(***************************************************************************)
route_begin(op, command, password) ==
    /\ Idle
    /\ IF command = ""
       THEN /\ last' = [NoCall EXCEPT
                          !.op = op,
                          !.response = [status |-> 400, error |-> "No command provided"]]
            /\ UNCHANGED << sudo_password, pending >>
       ELSE /\ sudo_password' = password_after_request(password)
            /\ pending' = [op |-> op, stage |-> "route", command |-> command,
                           require_sudo |-> route_require_sudo(command),
                           logs |-> set_password_logs(password)]
            /\ last' = NoCall
    /\ UNCHANGED << os_type, command_cache, now, ref, vCommand, verdicts, aside >>

\* POST /api/execute-command (app.py execute_system_command)
execute_system_command(command, password) ==
    route_begin("/api/execute-command", command, password)

\* POST /api/command/execute (app.py execute_gpt_command)
execute_gpt_command(command, password) ==
    route_begin("/api/command/execute", command, password)

\* POST /api/diagnostics/execute (app.py execute_diagnostic)
execute_diagnostic(command_text, password) ==
    route_begin("/api/diagnostics/execute", command_text, password)

\* execute_system_command and execute_gpt_command call
\* system_commands.execute_command(command, require_sudo=require_sudo)
route_calls_execute_command ==
    /\ pending.stage = "route"
    /\ pending.op \in { "/api/execute-command", "/api/command/execute" }
    /\ EnterExecuteCommand(pending.op, pending.command, pending.require_sudo, pending.logs)
    /\ UNCHANGED << os_type, command_cache, sudo_password, now, ref, vCommand, verdicts, aside >>

\* execute_diagnostic calls automated_diagnostics.execute_command(diagnostic_cmd),
\* which calls subprocess.run
route_calls_diagnostics ==
    /\ pending.stage = "route"
    /\ pending.op = "/api/diagnostics/execute"
    /\ pending' = [op |-> pending.op, stage |-> "run", command |-> pending.command,
                   require_sudo |-> pending.require_sudo,
                   spawn |-> diagnostics_spawn(pending.command), key |-> "",
                   logs |-> pending.logs \o << "Executing command: " \o pending.command >>,
                   age |-> -1]
    /\ UNCHANGED << os_type, command_cache, sudo_password, now, last, ref,
                    vCommand, verdicts, aside >>

\* subprocess.run tried a second time after a timeout or a non-zero exit
SubprocessReturns_retrying(run) ==
    /\ pending.stage = "run"
    /\ (run.kind = "timeout" \/ (run.kind = "completed" /\ run.returncode # 0))
    /\ pending.logs = << >>
    /\ pending' = [pending EXCEPT !.logs = << "Retrying command" >>]
    /\ UNCHANGED << os_type, command_cache, sudo_password, now, last, ref, vCommand,
                    verdicts, aside >>

\* subprocess.run is over and the waiting handler runs to its return
SubprocessReturns(run) ==
    /\ pending.stage = "run"
    /\ \E e \in { IF pending.spawn.by = "SystemCommands.execute_command"
                  THEN execute_command_end(command_cache, os_type, pending.spawn,
                                           pending.key, now, run)
                  ELSE diagnostics_execute_command_end(pending.command, run)
                       @@ [command_cache |-> command_cache] } :
          /\ command_cache' = e.command_cache
          /\ last' = [op |-> pending.op, command |-> pending.command,
                      require_sudo |-> pending.require_sudo, result |-> e.result,
                      response |-> response_of(pending.op, e.result, pending.command),
                      spawned |-> << pending.spawn >>, logs |-> pending.logs \o e.logs,
                      age |-> pending.age, run |-> run]
    /\ pending' = NoPending
    /\ UNCHANGED << os_type, sudo_password, now, ref, vCommand, verdicts, aside >>

\* /api/set-password keeping the secret already stored: the first write wins
set_sudo_password_first_wins(password) ==
    LET refused == ~Truthy(password) \/ ~is_macos(os_type) \/ Truthy(sudo_password) IN
    /\ Idle
    /\ sudo_password' = IF refused THEN sudo_password ELSE password
    /\ last' = [NoCall EXCEPT !.op = "/api/set-password",
                              !.response = [success |-> TRUE,
                                            message |-> "Password set successfully"]]
    /\ UNCHANGED << os_type, command_cache, now, pending, ref, vCommand, verdicts, aside >>

\* POST /api/set-password (app.py set_sudo_password, SystemCommands.set_sudo_password)
set_sudo_password(password) ==
    LET refused == ~Truthy(password) \/ ~is_macos(os_type) IN
    /\ Idle
    /\ sudo_password' = IF refused THEN sudo_password ELSE password
    /\ last' = [NoCall EXCEPT
                  !.op = "/api/set-password",
                  !.response =
                      IF ~Truthy(password)
                      THEN [status |-> 400, error |-> "No password provided"]
                      ELSE IF ~is_macos(os_type)
                      THEN [status |-> 400,
                            error |-> "Password setting is only available on macOS"]
                      ELSE [success |-> TRUE, message |-> "Password set successfully"],
                  !.logs = IF refused THEN << >>
                           ELSE << "Sudo password set for macOS commands" >>]
    /\ UNCHANGED << os_type, command_cache, now, pending, ref, vCommand, verdicts, aside >>

\* whether clear_cache has run since the call kept in ref returned
ref_after_clear == IF ref = NoRef THEN ref ELSE [ref EXCEPT !.cleared = TRUE]

\* /api/cache/clear removing the expired entries only
clear_cache_expired_only ==
    /\ Idle
    /\ command_cache' = [k \in { j \in DOMAIN command_cache :
                                   cache_entry_fresh(command_cache[j], now) }
                            |-> command_cache[k]]
    /\ last' = [NoCall EXCEPT
                  !.op = "/api/cache/clear",
                  !.response = [success |-> TRUE, message |-> "Cache cleared successfully"],
                  !.logs = << "Command cache cleared" >>]
    /\ ref' = ref_after_clear
    /\ UNCHANGED << os_type, sudo_password, now, pending, vCommand, verdicts, aside >>

\* POST /api/cache/clear (app.py clear_cache, SystemCommands.clear_cache)
clear_cache ==
    /\ Idle
    /\ command_cache' = << >>
    /\ last' = [NoCall EXCEPT
                  !.op = "/api/cache/clear",
                  !.response = [success |-> TRUE, message |-> "Cache cleared successfully"],
                  !.logs = << "Command cache cleared" >>]
    /\ ref' = ref_after_clear
    /\ UNCHANGED << os_type, sudo_password, now, pending, vCommand, verdicts, aside >>

\* GET /api/cache/stats (app.py get_cache_stats, SystemCommands.get_cache_stats)
cache_stats ==
    /\ Idle
    /\ last' = [NoCall EXCEPT
                  !.op = "/api/cache/stats",
                  !.result = get_cache_stats(command_cache, now),
                  !.response = get_cache_stats(command_cache, now)]
    /\ UNCHANGED << os_type, command_cache, sudo_password, now, pending, ref,
                    vCommand, verdicts, aside >>

\* the caller takes the answer
Respond ==
    /\ last # NoCall
    /\ last' = NoCall
    /\ UNCHANGED << os_type, command_cache, sudo_password, now, pending, ref,
                    vCommand, verdicts, aside >>

Next ==
    \/ Tick
    \/ \E c \in Commands, s \in BOOLEAN : ExecuteCommand(c, s)
    \/ \E c \in Commands \cup {""}, p \in Secrets \cup {None} : execute_system_command(c, p)
    \/ \E c \in Commands \cup {""}, p \in Secrets \cup {None} : execute_gpt_command(c, p)
    \/ \E c \in Commands \cup {""}, p \in Secrets \cup {None} : execute_diagnostic(c, p)
    \/ route_calls_execute_command
    \/ route_calls_diagnostics
    \/ \E run \in RunOutcomes : SubprocessReturns(run)
    \/ \E p \in Secrets \cup {""} : set_sudo_password(p)
    \/ clear_cache
    \/ cache_stats
    \/ Respond

Spec == Init /\ [][Next]_vars

(***************************************************************************)
(* The validators on their own.  ValSpec starts the process on any OS      *)
(* family with any command text of ValCommands in hand, asks each of the   *)
(* three validators about it once, and then gives it to execute_command.   *)
(***************************************************************************)
ValInit ==
    /\ os_type \in OsFamilies
    /\ command_cache = << >>
    /\ sudo_password \in (IF os_type = "darwin" THEN {None} \cup Secrets ELSE {None})
    /\ now = 0
    /\ pending = NoPending
    /\ last = NoCall
    /\ ref = NoRef
    /\ vCommand \in ValCommands
    /\ verdicts = NoVerdicts
    /\ threads = NoThreads
    /\ request = NoRequest
    /\ answer = NoAnswer

Verdict(accepted) == IF accepted THEN "accept" ELSE "reject"

\* SecurityValidator.is_command_safe(vCommand)
ask_is_command_safe ==
    /\ verdicts.security = "pending"
    /\ verdicts' = [verdicts EXCEPT !.security = Verdict(is_command_safe(vCommand))]
    /\ UNCHANGED << os_type, command_cache, sudo_password, now, pending, last, ref, vCommand,
                    aside >>

\* SecurityValidator.validate_command_for_os(vCommand, os_type)
ask_validate_command_for_os ==
    /\ verdicts.for_os = "pending"
    /\ verdicts' = [verdicts EXCEPT
                      !.for_os = Verdict(validate_command_for_os(vCommand, os_type))]
    /\ UNCHANGED << os_type, command_cache, sudo_password, now, pending, last, ref, vCommand,
                    aside >>

\* SystemCommands._is_command_safe(vCommand)
ask_executor_is_command_safe ==
    /\ verdicts.executor = "pending"
    /\ verdicts' = [verdicts EXCEPT
                      !.executor = Verdict(_is_command_safe(vCommand, os_type))]
    /\ UNCHANGED << os_type, command_cache, sudo_password, now, pending, last, ref, vCommand,
                    aside >>

\* every validator has answered
Asked ==
    /\ verdicts.security # "pending"
    /\ verdicts.for_os # "pending"
    /\ verdicts.executor # "pending"

\* SystemCommands.execute_command(vCommand, require_sudo)
ValExecuteCommand(require_sudo) ==
    /\ Asked
    /\ ExecuteCommand(vCommand, require_sudo)

ValNext ==
    \/ ask_is_command_safe
    \/ ask_validate_command_for_os
    \/ ask_executor_is_command_safe
    \/ \E s \in BOOLEAN : ValExecuteCommand(s)
    \/ \E run \in RunOutcomes : SubprocessReturns(run)

ValSpec == ValInit /\ [][ValNext]_vars

(***************************************************************************)
(* Pairs of calls.  PairSpec is the executor under direct calls, with one  *)
(* earlier execute_command call kept in ref when its answer is taken: any  *)
(* call may be the one kept, and no other is kept after it.  ref holds     *)
(* what the call was given and what it returned, the time of its return,   *)
(* and whether clear_cache has run since.                                  *)
(***************************************************************************)
\* the calls made: a command and the require_sudo flag
PairCalls ==
    { << "ping localhost", FALSE >>,
      << "system_profiler | head", FALSE >>,
      << "system_profiler | head", TRUE >> }

\* the answer is taken and the call is kept
Keep ==
    /\ last # NoCall
    /\ last.op = "execute_command"
    /\ ref = NoRef
    /\ ref' = [op |-> last.op, command |-> last.command,
               require_sudo |-> last.require_sudo, result |-> last.result,
               spawned |-> last.spawned, time |-> now, cleared |-> FALSE]
    /\ last' = NoCall
    /\ UNCHANGED << os_type, command_cache, sudo_password, now, pending, vCommand, verdicts, aside >>

PairNext ==
    \/ Tick
    \/ \E call \in PairCalls : ExecuteCommand(call[1], call[2])
    \/ \E run \in RunOutcomes : SubprocessReturns(run)
    \/ \E p \in Secrets : set_sudo_password(p)
    \/ clear_cache
    \/ Respond
    \/ Keep

PairSpec == Init /\ [][PairNext]_vars

(***************************************************************************)
(* Long outputs.  OutSpec is the executor under direct calls whose         *)
(* subprocess ends by itself with a captured standard output of a length   *)
(* around Config.MAX_COMMAND_OUTPUT.                                       *)
(***************************************************************************)
\* s * n
RECURSIVE Repeat(_, _)
Repeat(s, n) ==
    IF n = 0 THEN ""
    ELSE LET half == Repeat(s, n \div 2)
         IN  half \o half \o (IF n % 2 = 1 THEN s ELSE "")

\* a captured standard output of n >= 2 characters whose first and last
\* characters differ from the others
Captured(n) == "H" \o Repeat("m", n - 2) \o "T"

\* the lengths of the captured outputs
OutLengths ==
    { 2, MAX_COMMAND_OUTPUT - 1, MAX_COMMAND_OUTPUT, MAX_COMMAND_OUTPUT + 1,
      MAX_COMMAND_OUTPUT + 2, MAX_COMMAND_OUTPUT + 500 }

\* what subprocess.run does: it ends by itself, returncode 0 or 1
OutOutcomes ==
    { [kind |-> "completed", stdout |-> Captured(n), stderr |-> "", returncode |-> rc] :
        n \in OutLengths, rc \in { 0, 1 } }

\* the commands called: one cacheable, one not
OutCommands == { "ping localhost", "system_profiler | head" }

OutNext ==
    \/ Tick
    \/ \E c \in OutCommands : ExecuteCommand(c, FALSE)
    \/ \E run \in OutOutcomes : SubprocessReturns(run)
    \/ Respond

OutSpec == Init /\ [][OutNext]_vars

(***************************************************************************)
(* Concurrent callers.  app.py builds one SystemCommands object for the    *)
(* process and serves each request in its own thread                       *)
(* (Config.SOCKETIO_ASYNC_MODE = 'threading'); SystemCommands takes no     *)
(* lock.  ConcSpec runs the callers of Callers against the one object,     *)
(* each method cut at its accesses to self.command_cache and to            *)
(* self.sudo_password: one access is one step (a dict operation of the     *)
(* interpreter is atomic), and the steps of the callers interleave in any  *)
(* order.  threads[t] is the position of caller t and its local variables. *)
(***************************************************************************)
\* the request threads
Callers == { "t1", "t2" }

\* the command the callers run
ConcCommands == { "ping localhost" }

\* what subprocess.run does for them
ConcOutcomes ==
    { [kind |-> "completed", stdout |-> "up", stderr |-> "", returncode |-> 0],
      [kind |-> "timeout", stdout |-> "", stderr |-> "", returncode |-> -1] }

\* a caller between two calls
IdleThread ==
    [pc |-> "idle", fn |-> "none", command |-> "", require_sudo |-> FALSE,
     cache_entry |-> << >>, spawn |-> << >>, size |-> 0, seen |-> {},
     valid_entries |-> 0, expired_entries |-> 0, result |-> << >>, raised |-> None]

ConcInit ==
    /\ os_type \in OsFamilies
    /\ command_cache = << >>
    /\ sudo_password = None
    /\ now = 0
    /\ pending = NoPending
    /\ last = NoCall
    /\ ref = NoRef
    /\ vCommand = ""
    /\ verdicts = NoVerdicts
    /\ threads = [t \in Callers |-> IdleThread]
    /\ request = NoRequest
    /\ answer = NoAnswer

\* what no step of a caller changes
ConcFrame == << os_type, now, pending, last, ref, vCommand, verdicts, request, answer >>

\* the cache key of the call of caller t
thread_key(t) == cache_key(threads[t].command, os_type, threads[t].require_sudo)

\* caller t returns from its call with result
thread_returns(t, result) ==
    [threads[t] EXCEPT !.pc = "done", !.result = result]

\* caller t enters execute_command(command, require_sudo)
thread_execute_command(t, command, require_sudo) ==
    /\ threads[t].pc = "idle"
    /\ threads' = [threads EXCEPT ![t] =
                     [IdleThread EXCEPT !.pc = "lookup", !.fn = "execute_command",
                                        !.command = command,
                                        !.require_sudo = require_sudo]]
    /\ UNCHANGED << command_cache, sudo_password, ConcFrame >>

\* if cache_key in self.command_cache:
thread_cache_lookup(t) ==
    /\ threads[t].pc = "lookup"
    /\ threads' = [threads EXCEPT ![t].pc =
                     IF thread_key(t) \in DOMAIN command_cache THEN "read" ELSE "validate"]
    /\ UNCHANGED << command_cache, sudo_password, ConcFrame >>

(***************************************************************************)
(* cache_entry = self.command_cache[cache_key], then the age test on the   *)
(* local cache_entry.  The key found by the lookup may be gone: the        *)
(* subscript raises KeyError, which the handler's 'except Exception' turns *)
(* into a failure result.                                                  *)
(***************************************************************************)
thread_cache_read(t) ==
    /\ threads[t].pc = "read"
    /\ threads' = [threads EXCEPT ![t] =
                     IF thread_key(t) \notin DOMAIN command_cache
                     THEN [thread_returns(t, failure_result("'" \o thread_key(t) \o "'"))
                             EXCEPT !.raised = "KeyError"]
                     ELSE IF cache_entry_fresh(command_cache[thread_key(t)], now)
                     THEN [thread_returns(t, command_cache[thread_key(t)].result)
                             EXCEPT !.cache_entry = command_cache[thread_key(t)]]
                     ELSE [@ EXCEPT !.pc = "validate",
                                    !.cache_entry = command_cache[thread_key(t)]]]
    /\ UNCHANGED << command_cache, sudo_password, ConcFrame >>

\* the call of subprocess.run for command cmd
thread_spawn(t, cmd) ==
    [threads[t] EXCEPT
       !.pc = "run",
       !.spawn = [command |-> cmd, timeout |-> _get_command_timeout(cmd, os_type),
                  requested |-> threads[t].command,
                  by |-> "SystemCommands.execute_command"]]

\* validation, and on macOS the test 'if not self.sudo_password'
thread_validate(t) ==
    /\ threads[t].pc = "validate"
    /\ threads' = [threads EXCEPT ![t] =
                     IF ~_is_command_safe(threads[t].command, os_type)
                     THEN thread_returns(t, rejected_result)
                     ELSE IF os_type = "darwin" /\ threads[t].require_sudo
                     THEN IF password_missing(sudo_password)
                          THEN thread_returns(t, password_required_result)
                          ELSE [@ EXCEPT !.pc = "rebind"]
                     ELSE thread_spawn(t, threads[t].command)]
    /\ UNCHANGED << command_cache, sudo_password, ConcFrame >>

\* command = f"echo '{self.sudo_password}' | sudo -S {command}": the second read
\* of self.sudo_password
thread_rebind(t) ==
    /\ threads[t].pc = "rebind"
    /\ threads' = [threads EXCEPT ![t] =
                     thread_spawn(t, elevated_command(threads[t].command, sudo_password))]
    /\ UNCHANGED << command_cache, sudo_password, ConcFrame >>

\* subprocess.run is over for caller t: the result, and the store in the cache
thread_subprocess_returns(t, run) ==
    /\ threads[t].pc = "run"
    /\ \E e \in { execute_command_end(command_cache, os_type, threads[t].spawn,
                                      thread_key(t), now, run) } :
          /\ command_cache' = e.command_cache
          /\ threads' = [threads EXCEPT ![t] = thread_returns(t, e.result)]
    /\ UNCHANGED << sudo_password, ConcFrame >>

\* caller t calls clear_cache(): self.command_cache.clear()
thread_clear_cache(t) ==
    /\ threads[t].pc = "idle"
    /\ command_cache' = << >>
    /\ threads' = [threads EXCEPT ![t] =
                     [IdleThread EXCEPT !.pc = "done", !.fn = "clear_cache"]]
    /\ UNCHANGED << sudo_password, ConcFrame >>

\* caller t calls set_sudo_password(password): self.sudo_password = password
thread_set_sudo_password(t, password) ==
    /\ threads[t].pc = "idle"
    /\ sudo_password' = password
    /\ threads' = [threads EXCEPT ![t] =
                     [IdleThread EXCEPT !.pc = "done", !.fn = "set_sudo_password"]]
    /\ UNCHANGED << command_cache, ConcFrame >>

\* caller t enters get_cache_stats(): the for statement takes an iterator on
\* self.command_cache.values(), which notes the size of the dict
thread_get_cache_stats(t) ==
    /\ threads[t].pc = "idle"
    /\ threads' = [threads EXCEPT ![t] =
                     [IdleThread EXCEPT !.pc = "iterate", !.fn = "get_cache_stats",
                                        !.size = Cardinality(DOMAIN command_cache)]]
    /\ UNCHANGED << command_cache, sudo_password, ConcFrame >>

(***************************************************************************)
(* One turn of the loop of get_cache_stats.  The iterator raises           *)
(* RuntimeError('dictionary changed size during iteration') when the dict  *)
(* has not the size it noted; get_cache_stats does not catch it.           *)
(* Otherwise it gives an entry not yet given, which is counted; when there *)
(* is none left the loop ends.                                             *)
(***************************************************************************)
thread_iterate(t) ==
    /\ threads[t].pc = "iterate"
    /\ IF Cardinality(DOMAIN command_cache) # threads[t].size
       THEN threads' = [threads EXCEPT ![t].pc = "done", ![t].raised = "RuntimeError"]
       ELSE IF DOMAIN command_cache \subseteq threads[t].seen
       THEN threads' = [threads EXCEPT ![t].pc = "total"]
       ELSE \E k \in DOMAIN command_cache \ threads[t].seen :
              threads' = [threads EXCEPT
                            ![t].seen = @ \cup {k},
                            ![t].cache_entry = command_cache[k],
                            ![t].valid_entries =
                               IF cache_entry_fresh(command_cache[k], now)
                               THEN @ + 1 ELSE @,
                            ![t].expired_entries =
                               IF cache_entry_fresh(command_cache[k], now)
                               THEN @ ELSE @ + 1]
    /\ UNCHANGED << command_cache, sudo_password, ConcFrame >>

\* after the loop: the dict returned, with 'total_entries': len(self.command_cache)
\* read now
thread_stats_total(t) ==
    /\ threads[t].pc = "total"
    /\ threads' = [threads EXCEPT ![t] =
                     thread_returns(t,
                       [total_entries |-> Cardinality(DOMAIN command_cache),
                        valid_entries |-> threads[t].valid_entries,
                        expired_entries |-> threads[t].expired_entries,
                        cache_timeout |-> cache_timeout])]
    /\ UNCHANGED << command_cache, sudo_password, ConcFrame >>

\* the caller has its answer and is free for another call
thread_done(t) ==
    /\ threads[t].pc = "done"
    /\ threads' = [threads EXCEPT ![t] = IdleThread]
    /\ UNCHANGED << command_cache, sudo_password, ConcFrame >>

ConcNext ==
    \E t \in Callers :
        \/ \E c \in ConcCommands, s \in BOOLEAN : thread_execute_command(t, c, s)
        \/ thread_cache_lookup(t)
        \/ thread_cache_read(t)
        \/ thread_validate(t)
        \/ thread_rebind(t)
        \/ \E run \in ConcOutcomes : thread_subprocess_returns(t, run)
        \/ thread_clear_cache(t)
        \/ \E p \in Secrets : thread_set_sudo_password(t, p)
        \/ thread_get_cache_stats(t)
        \/ thread_iterate(t)
        \/ thread_stats_total(t)
        \/ thread_done(t)

ConcSpec == ConcInit /\ [][ConcNext]_vars

(***************************************************************************)
(* The diagnostic catalog (modules/automated_diagnostics.py).              *)
(*                                                                         *)
(* DiagSpec calls get_suggested_diagnostics on its own, on any OS family   *)
(* and with any issue category of IssueCategories; the caller then picks   *)
(* one of the suggestions returned and the executor's validation is asked  *)
(* about its command text.                                                 *)
(***************************************************************************)
\* the dataclass DiagnosticCommand; requires_permission keeps its default
DiagnosticCommand(name, description, command, category, risk_level) ==
    [name |-> name, description |-> description, command |-> command,
     category |-> category, risk_level |-> risk_level, requires_permission |-> TRUE]

\* _initialize_commands when self.os_type is 'windows'
WINDOWS_DIAGNOSTICS ==
    [network |->
       << DiagnosticCommand("Network Configuration",
            "Check current network settings and IP configuration",
            "ipconfig /all", "network", "low"),
          DiagnosticCommand("DNS Resolution Test",
            "Test DNS resolution for common domains",
            "nslookup google.com", "network", "low"),
          DiagnosticCommand("Network Connectivity Test",
            "Test connectivity to multiple servers",
            "ping -n 4 google.com", "network", "low") >>,
     system |->
       << DiagnosticCommand("System Information",
            "Get detailed system information",
            "systeminfo", "system", "low"),
          DiagnosticCommand("Running Processes",
            "List currently running processes",
            "tasklist", "system", "low"),
          DiagnosticCommand("System Health Check",
            "Check system file integrity",
            "sfc /scannow", "system", "medium") >>,
     storage |->
       << DiagnosticCommand("Disk Space Analysis",
            "Check disk space usage",
            "wmic logicaldisk get size,freespace,caption", "storage", "low"),
          DiagnosticCommand("Disk Health Check",
            "Check disk for errors",
            "chkdsk C: /f", "storage", "high") >>,
     security |-> << >>,
     performance |-> << >>]

\* _initialize_commands when self.os_type is 'darwin'
MACOS_DIAGNOSTICS ==
    [network |->
       << DiagnosticCommand("Network Configuration",
            "Check current network settings",
            "ifconfig", "network", "low"),
          DiagnosticCommand("DNS Resolution Test",
            "Test DNS resolution",
            "nslookup google.com", "network", "low"),
          DiagnosticCommand("Network Connectivity Test",
            "Test connectivity to servers",
            "ping -c 4 google.com", "network", "low") >>,
     system |->
       << DiagnosticCommand("System Information",
            "Get system hardware information",
            "system_profiler SPHardwareDataType", "system", "low"),
          DiagnosticCommand("Running Processes",
            "List running processes",
            "ps aux --sort=-%cpu | head -20", "system", "low") >>,
     storage |->
       << DiagnosticCommand("Disk Space Analysis",
            "Check disk space usage",
            "df -h", "storage", "low"),
          DiagnosticCommand("Disk Health Check",
            "Check disk for errors",
            "diskutil verifyDisk /", "storage", "medium") >>,
     security |-> << >>,
     performance |-> << >>]

\* _initialize_commands when self.os_type is neither (the Linux branch)
LINUX_DIAGNOSTICS ==
    [network |->
       << DiagnosticCommand("Network Configuration",
            "Check network interfaces",
            "ip addr show", "network", "low"),
          DiagnosticCommand("DNS Resolution Test",
            "Test DNS resolution",
            "nslookup google.com", "network", "low"),
          DiagnosticCommand("Network Connectivity Test",
            "Test connectivity",
            "ping -c 4 google.com", "network", "low") >>,
     system |->
       << DiagnosticCommand("System Information",
            "Get system information",
            "uname -a && cat /etc/os-release", "system", "low"),
          DiagnosticCommand("Running Processes",
            "List running processes",
            "ps aux --sort=-%cpu | head -20", "system", "low") >>,
     storage |->
       << DiagnosticCommand("Disk Space Analysis",
            "Check disk space usage",
            "df -h", "storage", "low") >>,
     security |-> << >>,
     performance |-> << >>]

\* self.diagnostic_commands = self._initialize_commands()
_initialize_commands(os) ==
    IF os = "windows" THEN WINDOWS_DIAGNOSTICS
    ELSE IF os = "darwin" THEN MACOS_DIAGNOSTICS
    ELSE LINUX_DIAGNOSTICS

\* the slice s[:n]
FirstN(s, n) == SubSeq(s, 1, IF Len(s) < n THEN Len(s) ELSE n)

\* the suggestions with the storage entries of a performance issue put first
get_suggested_diagnostics_storage_first(diagnostic_commands, issue_category) ==
    IF issue_category = "network" THEN diagnostic_commands.network
    ELSE IF issue_category = "performance"
    THEN diagnostic_commands.storage \o diagnostic_commands.system
    ELSE IF issue_category = "storage" THEN diagnostic_commands.storage
    ELSE IF issue_category = "system" THEN diagnostic_commands.system
    ELSE FirstN(diagnostic_commands.system, 2) \o FirstN(diagnostic_commands.network, 1)

\* AutomatedDiagnostics.get_suggested_diagnostics(issue_category)
get_suggested_diagnostics(diagnostic_commands, issue_category) ==
    IF issue_category = "network" THEN diagnostic_commands.network
    ELSE IF issue_category = "performance"
    THEN diagnostic_commands.system \o diagnostic_commands.storage
    ELSE IF issue_category = "storage" THEN diagnostic_commands.storage
    ELSE IF issue_category = "system" THEN diagnostic_commands.system
    ELSE FirstN(diagnostic_commands.system, 2) \o FirstN(diagnostic_commands.network, 1)

\* the issue categories asked: the five categorize_user_issue returns, the other
\* keys of the catalog, and texts that are no category
IssueCategories ==
    { "network", "performance", "storage", "system", "general",
      "security", "", "Network", "NETWORK", "printer", "hardware", "storage " }

\* a caller calls get_suggested_diagnostics(issue_category)
call_get_suggested_diagnostics(issue_category) ==
    /\ request = NoRequest
    /\ request' = [fn |-> "get_suggested_diagnostics", issue_category |-> issue_category]
    /\ answer' = [returned |-> TRUE,
                  value |-> get_suggested_diagnostics(_initialize_commands(os_type),
                                                      issue_category)]
    /\ UNCHANGED << os_type, command_cache, sudo_password, now, pending, last, ref,
                    vCommand, verdicts, threads >>

\* the caller picks suggestion i to have it run
pick_suggestion(i) ==
    /\ request.fn = "get_suggested_diagnostics"
    /\ answer.returned
    /\ vCommand = ""
    /\ i \in 1..Len(answer.value)
    /\ vCommand' = answer.value[i].command
    /\ UNCHANGED << os_type, command_cache, sudo_password, now, pending, last, ref,
                    verdicts, aside >>

\* SystemCommands._is_command_safe on the command text of the suggestion picked
validate_suggestion ==
    /\ vCommand # ""
    /\ ask_executor_is_command_safe

DiagInit ==
    /\ os_type \in OsFamilies
    /\ command_cache = << >>
    /\ sudo_password = None
    /\ now = 0
    /\ pending = NoPending
    /\ last = NoCall
    /\ ref = NoRef
    /\ vCommand = ""
    /\ verdicts = NoVerdicts
    /\ threads = NoThreads
    /\ request = NoRequest
    /\ answer = NoAnswer

\* the suggestion lists are five entries long at most
DiagNext ==
    \/ \E c \in IssueCategories : call_get_suggested_diagnostics(c)
    \/ \E i \in 1..5 : pick_suggestion(i)
    \/ validate_suggestion

DiagSpec == DiagInit /\ [][DiagNext]_vars

(***************************************************************************)
(* Functions called on their own.  FnSpec starts the process on any OS     *)
(* family and makes one call of one function with one argument: request is *)
(* the call and answer what it returned.                                   *)
(***************************************************************************)
\* categorize_user_issue with the storage keywords tried before the performance ones
categorize_user_issue_storage_first(user_message) ==
    LET message_lower == Lower(user_message) IN
    IF ContainsAny(message_lower,
                   << "internet", "wifi", "network", "connection", "ping", "dns" >>)
    THEN "network"
    ELSE IF ContainsAny(message_lower, << "disk", "storage", "space", "full", "memory" >>)
    THEN "storage"
    ELSE IF ContainsAny(message_lower,
                        << "slow", "freeze", "crash", "performance", "lag" >>)
    THEN "performance"
    ELSE IF ContainsAny(message_lower, << "error", "blue screen", "kernel", "system" >>)
    THEN "system"
    ELSE "general"

\* AutomatedDiagnostics.categorize_user_issue
categorize_user_issue(user_message) ==
    LET message_lower == Lower(user_message) IN
    IF ContainsAny(message_lower,
                   << "internet", "wifi", "network", "connection", "ping", "dns" >>)
    THEN "network"
    ELSE IF ContainsAny(message_lower,
                        << "slow", "freeze", "crash", "performance", "lag" >>)
    THEN "performance"
    ELSE IF ContainsAny(message_lower, << "disk", "storage", "space", "full", "memory" >>)
    THEN "storage"
    ELSE IF ContainsAny(message_lower, << "error", "blue screen", "kernel", "system" >>)
    THEN "system"
    ELSE "general"

\* the messages categorized: the examples, one message per keyword set, messages
\* with keywords of several sets, keywords inside other words and in upper case
UserMessages ==
    { "my wifi keeps disconnecting", "disk is full", "random gibberish",
      "my computer is slow", "blue screen", "I get an error",
      "the disk is slow", "slow internet", "system crash", "kernel error on disk",
      "disk space and system error", "memory error", "network storage is full",
      "WiFi down", "DISK IS FULL", "Blue Screen", "shopping list", "raise the flag",
      "blue  screen", "bluescreen", "", "hello", "DNS", "the ecosystem",
      "performance of the storage system", "please help" }

\* a caller calls categorize_user_issue(user_message)
call_categorize_user_issue(user_message) ==
    /\ request = NoRequest
    /\ request' = [fn |-> "categorize_user_issue", user_message |-> user_message]
    /\ answer' = [returned |-> TRUE, value |-> categorize_user_issue(user_message)]
    /\ UNCHANGED << os_type, command_cache, sudo_password, now, pending, last, ref,
                    vCommand, verdicts, threads >>

\* the inputs sanitized: None, the empty string, the input of the test, inputs with
\* dangerous characters and white space, and inputs longer than MAX_MESSAGE_LENGTH
UserInputs ==
    { None, "", " ", "<script>alert(\"xss\")</script>", "hello world",
      "  padded  ", "a  b\t\tc\n d", "a < b", "rm -rf /; echo $(id) | tee 'x' & \"y\"",
      "<>\"'&|;$()", "it's 5 > 3", Backquote \o "id" \o Backquote,
      Repeat("a", MAX_MESSAGE_LENGTH), Repeat("a", MAX_MESSAGE_LENGTH + 1),
      Repeat("a<", MAX_MESSAGE_LENGTH + 100), Repeat("<", MAX_MESSAGE_LENGTH + 1),
      Repeat("a", MAX_MESSAGE_LENGTH - 1) \o "  b", Repeat("a ", MAX_MESSAGE_LENGTH),
      Repeat(" ", MAX_MESSAGE_LENGTH + 1) \o "x",
      Repeat("a", MAX_MESSAGE_LENGTH) \o "<script>" }

\* a caller calls sanitize_input(user_input)
call_sanitize_input(user_input) ==
    /\ request = NoRequest
    /\ request' = [fn |-> "sanitize_input", user_input |-> user_input]
    /\ answer' = [returned |-> TRUE, value |-> sanitize_input(user_input)]
    /\ UNCHANGED << os_type, command_cache, sudo_password, now, pending, last, ref,
                    vCommand, verdicts, threads >>

\* the commands classified: those of ValCommands, and commands with tokens of
\* several tiers, in upper case, and with none
TimeoutCommands ==
    ValCommands
    \cup { "", "echo free", "ping localhost && df -h", "tasklist | findstr ipconfig",
           "ps aux | grep systeminfo", "uname -a; chkdsk", "PING localhost", "PS",
           "Systeminfo", "sfc /scannow && echo done", "diskutil list", "ioreg -l",
           "df -h; diskutil list", "hostname", "whoami" }

\* a caller calls _get_command_timeout(command)
call_get_command_timeout(command) ==
    /\ request = NoRequest
    /\ request' = [fn |-> "_get_command_timeout", command |-> command]
    /\ answer' = [returned |-> TRUE, value |-> _get_command_timeout(command, os_type)]
    /\ UNCHANGED << os_type, command_cache, sudo_password, now, pending, last, ref,
                    vCommand, verdicts, threads >>

FnNext ==
    \/ \E m \in UserMessages : call_categorize_user_issue(m)
    \/ \E x \in UserInputs : call_sanitize_input(x)
    \/ \E c \in TimeoutCommands : call_get_command_timeout(c)

FnSpec == DiagInit /\ [][FnNext]_vars

(***************************************************************************)
(* Changing the credential.  CredSpec is the executor under direct calls   *)
(* with require_sudo, where what subprocess.run does is decided by sudo:   *)
(* 'sudo -S' reads the password echoed to it, runs the command when it is  *)
(* the password of the account, and otherwise ends with exit status 1.     *)
(***************************************************************************)
\* the password of the account the process runs under
AccountPassword == "hunter2"

\* what subprocess.run does with the command it is given
sudo_run(command) ==
    IF Contains(command, "sudo -S ")
       /\ ~StartsWith(command, "echo '" \o AccountPassword \o "' | sudo -S ")
    THEN [kind |-> "completed", stdout |-> "", stderr |-> "Sorry, try again.",
          returncode |-> 1]
    ELSE [kind |-> "completed", stdout |-> "up", stderr |-> "", returncode |-> 0]

\* subprocess.run is over
SudoReturns ==
    /\ pending.stage = "run"
    /\ SubprocessReturns(sudo_run(pending.spawn.command))

CredNext ==
    \/ Tick
    \/ \E c \in { "system_profiler | head" }, s \in BOOLEAN : ExecuteCommand(c, s)
    \/ SudoReturns
    \/ \E p \in Secrets : set_sudo_password(p)
    \/ clear_cache
    \/ Respond

CredSpec == Init /\ [][CredNext]_vars

\* ------------------------------------------------------------ properties

\* the callers of SystemCommands.execute_command
ExecuteCallers == { "execute_command", "/api/execute-command", "/api/command/execute" }

\* a call of SystemCommands.execute_command has just returned
ExecuteReturned == last.op \in ExecuteCallers /\ DOMAIN last.result # {}

\* the subprocess.run calls of the step: the one being waited for and those of the
\* call that has just returned
Spawns ==
    (IF pending.stage = "run" THEN { pending.spawn } ELSE { })
    \cup { last.spawned[i] : i \in 1..Len(last.spawned) }

\* the lower-cased text of command contains an entry of Config.BLOCKED_PATTERNS
HasBlockedPattern(command) ==
    \E i \in 1..Len(BLOCKED_PATTERNS) : Contains(Lower(command), BLOCKED_PATTERNS[i])

\* the shell metacharacters of the block set
Metacharacters == { "&&", "||", ";", "|", ">", ">>", "<", "<<", Backquote, "$(" }

(***************************************************************************)
(* C1: no caller-supplied command text is run in a shell unless it has     *)
(* passed validation: every subprocess.run call is made by                 *)
(* SystemCommands.execute_command (never by AutomatedDiagnostics), for a   *)
(* command text that _is_command_safe accepts.                             *)
(***************************************************************************)
C1_OnlyValidatedCommandsRun ==
    \A spawn \in Spawns :
        /\ spawn.by = "SystemCommands.execute_command"
        /\ _is_command_safe(spawn.requested, os_type)

(***************************************************************************)
(* C2: a command whose lower-cased text contains an entry of               *)
(* Config.BLOCKED_PATTERNS is accepted by none of the three validators,    *)
(* on any OS family, whatever it starts with.                              *)
(***************************************************************************)
C2_BlockedPatternRejected ==
    HasBlockedPattern(vCommand) =>
        /\ verdicts.security # "accept"
        /\ verdicts.for_os # "accept"
        /\ verdicts.executor # "accept"

\* C2 witness: an approved prefix followed by a blocked pattern, refused by all three
C2_Witness ==
    /\ vCommand = "ping rm -rf"
    /\ StartsWithAny(vCommand, allowed_commands(os_type))
    /\ verdicts = [security |-> "reject", for_os |-> "reject", executor |-> "reject"]

(***************************************************************************)
(* C3: execute_command makes no subprocess.run call for a command text     *)
(* that contains a shell metacharacter of the block set.                   *)
(***************************************************************************)
C3_NoSpawnWithMetacharacter ==
    \A spawn \in Spawns :
        spawn.by = "SystemCommands.execute_command" =>
            \A m \in Metacharacters : ~Contains(spawn.requested, m)

(***************************************************************************)
(* C4: when validation rejects the command, execute_command returns        *)
(* success = false, output 'Command not allowed for security reasons' and  *)
(* error 'Security validation failed', has made no subprocess.run call,    *)
(* and the step leaves command_cache and sudo_password as they were.       *)
(***************************************************************************)
C4_RejectionHandled ==
    [][ (ExecuteReturned' /\ ~_is_command_safe(last'.command, os_type')) =>
            /\ last'.result = [success |-> FALSE,
                               output |-> "Command not allowed for security reasons",
                               error |-> "Security validation failed"]
            /\ last'.spawned = << >>
            /\ command_cache' = command_cache
            /\ sudo_password' = sudo_password ]_vars

\* C4 witness: a rejection while the cache holds an entry and a credential is stored
C4_Witness ==
    /\ ExecuteReturned
    /\ ~_is_command_safe(last.command, os_type)
    /\ last.result.error = "Security validation failed"
    /\ DOMAIN command_cache # {}
    /\ sudo_password # None

\* the entry looked up by the call that has just returned was fresh
FoundFresh == last.age >= 0 /\ last.age < cache_timeout

(***************************************************************************)
(* C5: on macOS, execute_command(c, require_sudo=True), for a command c    *)
(* that passes validation and has no fresh cache entry, returns            *)
(* success = false with requires_password = true and makes no              *)
(* subprocess.run call while no credential is stored; once                 *)
(* set_sudo_password has stored one, the call makes one subprocess.run     *)
(* call, of the elevated invocation of c with that credential.             *)
(***************************************************************************)
C5_ElevationGate ==
    ( /\ os_type = "darwin"
      /\ ExecuteReturned
      /\ last.require_sudo
      /\ _is_command_safe(last.command, os_type)
      /\ ~FoundFresh ) =>
        IF sudo_password = None
        THEN /\ last.result.success = FALSE
             /\ "requires_password" \in DOMAIN last.result
             /\ last.result.requires_password = TRUE
             /\ last.spawned = << >>
        ELSE /\ Len(last.spawned) = 1
             /\ last.spawned[1].command =
                    "echo '" \o sudo_password \o "' | sudo -S " \o last.command

\* C5 witness: the call kept was refused for want of a credential, and the same call,
\* after set_sudo_password, has run the elevated invocation
C5_Witness ==
    /\ os_type = "darwin"
    /\ ref # NoRef
    /\ "requires_password" \in DOMAIN ref.result
    /\ ExecuteReturned
    /\ last.command = ref.command
    /\ last.require_sudo /\ ref.require_sudo
    /\ sudo_password = "hunter2"
    /\ Len(last.spawned) = 1
    /\ last.spawned[1].command = "echo 'hunter2' | sudo -S system_profiler | head"

(***************************************************************************)
(* C6: the secret given to set_sudo_password occurs in no log message and  *)
(* in no field of a result that execute_command returns.                   *)
(***************************************************************************)
C6_SecretNeverExposed ==
    \A secret \in Secrets :
        /\ \A i \in 1..Len(last.logs) : ~Contains(last.logs[i], secret)
        /\ ExecuteReturned =>
               \A field \in DOMAIN last.result \cap { "output", "error" } :
                   ~Contains(last.result[field], secret)

(***************************************************************************)
(* C7: every entry of the approved table of the OS family that contains no *)
(* blocked pattern is accepted, as a command, by validate_command_for_os   *)
(* and by the executor's _is_command_safe.                                 *)
(***************************************************************************)
C7_ApprovedPrefixAccepted ==
    ( /\ vCommand \in Range(allowed_commands(os_type))
      /\ ~HasBlockedPattern(vCommand) ) =>
        /\ verdicts.for_os # "reject"
        /\ verdicts.executor # "reject"

(***************************************************************************)
(* C8: a command whose lower-cased, trimmed text starts with no entry of   *)
(* the approved table of the OS family is rejected by                      *)
(* validate_command_for_os, and execute_command rejects it without a       *)
(* subprocess.run call.                                                    *)
(***************************************************************************)
C8_UnapprovedRejected ==
    ~StartsWithAny(Strip(Lower(vCommand)), allowed_commands(os_type)) =>
        /\ verdicts.for_os # "accept"
        /\ Spawns = { }
        /\ ExecuteReturned =>
               /\ last.command = vCommand
               /\ last.result.success = FALSE
               /\ last.result.output = "Command not allowed for security reasons"

\* C8 witness: 'ifconfig' on Windows, refused by the validator and by execute_command
C8_Witness ==
    /\ os_type = "windows"
    /\ vCommand = "ifconfig"
    /\ verdicts.for_os = "reject"
    /\ ExecuteReturned
    /\ last.result.error = "Security validation failed"
    /\ last.spawned = << >>

\* the call that has just returned is a second call of the triple of the call kept,
\* made less than cache_timeout after it
SecondCallInWindow ==
    /\ ref # NoRef
    /\ ExecuteReturned
    /\ last.command = ref.command
    /\ last.require_sudo = ref.require_sudo
    /\ now - ref.time < cache_timeout

\* the subprocess of a call ended by itself: only then the result has a return code
Completed(call) == Len(call.spawned) = 1 /\ "return_code" \in DOMAIN call.result

LastKey == cache_key(last.command, os_type, last.require_sudo)

\* the call that has just returned was answered from the cache
AnsweredFromCache ==
    ExecuteReturned /\ last.spawned = << >> /\ "return_code" \in DOMAIN last.result

\* command_cache holds the result of the call that has just returned, stored now
EntryReplaced ==
    /\ LastKey \in DOMAIN command_cache
    /\ command_cache[LastKey] = [result |-> last.result, timestamp |-> now]

(***************************************************************************)
(* C10, as stated: an entry is returned only while its age is less than    *)
(* cache_timeout; a call that finds an entry of age >= cache_timeout       *)
(* validates, makes a subprocess.run call, and for a cacheable command     *)
(* the entry is replaced with the new result and a new timestamp.          *)
(***************************************************************************)
C10_ExpiredEntryReplaced ==
    /\ AnsweredFromCache => FoundFresh
    /\ (ExecuteReturned /\ last.age >= cache_timeout) =>
           /\ Len(last.spawned) = 1
           /\ _is_command_safe(last.command, os_type)
           /\ _is_quick_command(last.spawned[1].command, os_type) => EntryReplaced

(***************************************************************************)
(* C10, amended: an entry is returned only while its age is less than      *)
(* cache_timeout; a call that finds an entry of age >= cache_timeout       *)
(* validates and makes a subprocess.run call, and when that subprocess     *)
(* ends by itself, for a cacheable command, the entry is replaced with the *)
(* new result and a new timestamp; after a timeout or a failure to run,    *)
(* the expired entry stays as it was.                                      *)
(***************************************************************************)
C10_ExpiredEntryRefreshed ==
    /\ AnsweredFromCache => FoundFresh
    /\ (ExecuteReturned /\ last.age >= cache_timeout) =>
           /\ Len(last.spawned) = 1
           /\ _is_command_safe(last.command, os_type)
           /\ IF Completed(last)
              THEN _is_quick_command(last.spawned[1].command, os_type) => EntryReplaced
              ELSE /\ LastKey \in DOMAIN command_cache
                   /\ now - command_cache[LastKey].timestamp = last.age

\* C10 witness: a call found an entry of age cache_timeout, ran the command again and
\* stored the new result
C10_Witness ==
    /\ ExecuteReturned
    /\ last.age = cache_timeout
    /\ Completed(last)
    /\ EntryReplaced

\* the object the call that has just returned would find if it were made again now
SelfNow ==
    [os_type |-> os_type, command_cache |-> command_cache, sudo_password |-> sudo_password]

(***************************************************************************)
(* C11: when subprocess.run exceeds the timeout, execute_command returns   *)
(* success = false with error 'Command timed out after N seconds', N being *)
(* the budget _get_command_timeout gives the command as run and the        *)
(* timeout subprocess.run was given; the step leaves command_cache as it   *)
(* was, and the same call made again would call subprocess.run again.      *)
(***************************************************************************)
C11_TimeoutNotCached ==
    [][ (ExecuteReturned' /\ last'.run.kind = "timeout") =>
            /\ Len(last'.spawned) = 1
            /\ last'.spawned[1].timeout =
                   _get_command_timeout(last'.spawned[1].command, os_type)
            /\ last'.result =
                   [success |-> FALSE, output |-> "",
                    error |-> "Command timed out after "
                              \o ToString(last'.spawned[1].timeout) \o " seconds"]
            /\ command_cache' = command_cache
            /\ ~execute_command_begin(SelfNow', last'.command, last'.require_sudo,
                                      now').returned ]_vars

\* C11 witness: a quick command timed out after its 10 seconds, with nothing cached
C11_Witness ==
    /\ ExecuteReturned
    /\ last.run.kind = "timeout"
    /\ last.result.error = "Command timed out after 10 seconds"
    /\ LastKey \notin DOMAIN command_cache

C13_StructuredResult ==
    ExecuteReturned =>
        /\ { "success", "output" } \subseteq DOMAIN last.result
        /\ last.result.success \in BOOLEAN
        /\ Len(last.result.output) >= 0

\* C13 witness: subprocess.run raised, and the caller got a failure result
C13_Witness ==
    /\ ExecuteReturned
    /\ last.run.kind = "fault"
    /\ last.result.success = FALSE
    /\ last.result.output = ""

\* the text appended to a truncated output
TruncationMarker == "\n... (output truncated)"

\* the last n characters of s
LastChars(s, n) == SubSeq(s, Len(s) - n + 1, Len(s))

\* s ends with the truncation marker
Marked(s) ==
    /\ Len(s) >= Len(TruncationMarker)
    /\ LastChars(s, Len(TruncationMarker)) = TruncationMarker

(***************************************************************************)
(* C14: when subprocess.run ends by itself, a captured standard output     *)
(* longer than MAX_COMMAND_OUTPUT characters is returned as                *)
(* MAX_COMMAND_OUTPUT of its characters (its first or its last ones)       *)
(* followed by the truncation marker; one that is not longer is returned   *)
(* as it is, without the marker.  An output that differs from the captured *)
(* one always ends with the marker.                                        *)
(***************************************************************************)
C14_TruncationMarked ==
    (ExecuteReturned /\ last.run.kind = "completed") =>
        LET captured == last.run.stdout
            output == last.result.output
        IN  /\ Len(captured) > MAX_COMMAND_OUTPUT =>
                 /\ Len(output) = MAX_COMMAND_OUTPUT + Len(TruncationMarker)
                 /\ Marked(output)
                 /\ SubSeq(output, 1, MAX_COMMAND_OUTPUT)
                      \in { SubSeq(captured, 1, MAX_COMMAND_OUTPUT),
                            LastChars(captured, MAX_COMMAND_OUTPUT) }
            /\ Len(captured) <= MAX_COMMAND_OUTPUT =>
                 /\ output = captured
                 /\ ~Marked(output)
            /\ output # captured => Marked(output)

\* C14 witness: an output one character too long came back cut and marked
C14_Witness ==
    /\ ExecuteReturned
    /\ last.run.kind = "completed"
    /\ Len(last.run.stdout) = MAX_COMMAND_OUTPUT + 1
    /\ Marked(last.result.output)

(***************************************************************************)
(* C15: in every result execute_command returns, fresh or from the cache,  *)
(* the output field has at most MAX_COMMAND_OUTPUT characters, and when    *)
(* the captured output was cut, the part kept is its tail.                 *)
(***************************************************************************)
C15_OutputWithinBound ==
    ExecuteReturned =>
        /\ Len(last.result.output) <= MAX_COMMAND_OUTPUT
        /\ (last.run.kind = "completed" /\ Len(last.run.stdout) > MAX_COMMAND_OUTPUT) =>
               SubSeq(last.result.output, 1, MAX_COMMAND_OUTPUT)
                 = LastChars(last.run.stdout, MAX_COMMAND_OUTPUT)

(***************************************************************************)
(* C16: under any interleaving of concurrent execute_command, clear_cache, *)
(* get_cache_stats and set_sudo_password calls, every cache entry a caller *)
(* has read is complete (a result with its timestamp), every elevated      *)
(* subprocess.run uses a secret exactly as one set_sudo_password call was  *)
(* given it, and no call raises because another call changed the cache map *)
(* while it was reading it.                                                *)
(***************************************************************************)
C16_NoInterference ==
    \A t \in DOMAIN threads :
        /\ threads[t].cache_entry # << >> =>
               DOMAIN threads[t].cache_entry = { "result", "timestamp" }
        /\ (threads[t].spawn # << >> /\ os_type = "darwin" /\ threads[t].require_sudo) =>
               \E p \in Secrets :
                   threads[t].spawn.command = elevated_command(threads[t].command, p)
        /\ threads[t].raised = None

\* the step stores password p: /api/set-password, or an executing route whose
\* request carries it
StoresPassword(p) ==
    \/ set_sudo_password(p)
    \/ \E c \in Commands :
          \/ execute_system_command(c, p)
          \/ execute_gpt_command(c, p)
          \/ execute_diagnostic(c, p)

\* the step is the call of subprocess.run of an elevated execute_command
ElevatedSpawn ==
    /\ pending.stage # "run"
    /\ pending'.stage = "run"
    /\ pending'.spawn.by = "SystemCommands.execute_command"
    /\ os_type = "darwin"
    /\ pending'.require_sudo

(***************************************************************************)
(* C17: the credential store holds one secret, last write wins.  On macOS  *)
(* a step that stores a secret leaves exactly that secret in               *)
(* sudo_password, whatever was there; sudo_password changes in no other    *)
(* step; and an elevated execute_command, whoever calls it, runs with the  *)
(* secret sudo_password holds at that time, that is the one set last.      *)
(***************************************************************************)
C17_LastWriteWins ==
    [][ /\ \A p \in Secrets :
              (is_macos(os_type) /\ StoresPassword(p)) => sudo_password' = p
        /\ sudo_password' # sudo_password =>
              \E p \in Secrets :
                  is_macos(os_type) /\ StoresPassword(p) /\ sudo_password' = p
        /\ ElevatedSpawn =>
              /\ sudo_password' = sudo_password
              /\ sudo_password \in Secrets
              /\ pending'.spawn.command =
                     elevated_command(pending'.command, sudo_password) ]_vars

\* C17 witness: a request that carried no password ran elevated with the secret
\* another request had set
C17_Witness ==
    /\ ExecuteReturned
    /\ last.op = "/api/command/execute"
    /\ os_type = "darwin"
    /\ last.require_sudo
    /\ \A i \in 1..Len(last.logs) : last.logs[i] # "Sudo password set for macOS commands"
    /\ Len(last.spawned) = 1
    /\ last.spawned[1].command = elevated_command(last.command, "tr0ub4dor")

(***************************************************************************)
(* C18: each execute_command call calls subprocess.run at most once.  When *)
(* subprocess.run is over, whether it ended with exit status 0, with       *)
(* another exit status, by the timeout or by an exception, the call        *)
(* returns in that same step with that one spawn: it never waits for a     *)
(* second subprocess.                                                      *)
(***************************************************************************)
C18_NoRetry ==
    [][ /\ (pending.stage = "run" /\ pending' # pending) =>
              /\ pending' = NoPending
              /\ last'.spawned = << pending.spawn >>
              /\ last'.op = pending.op
        /\ ExecuteReturned' => Len(last'.spawned) <= 1 ]_vars

\* C18 witness: the subprocess ended with exit status 1, and the call returned
\* with its single spawn
C18_Witness ==
    /\ ExecuteReturned
    /\ last.run.kind = "completed"
    /\ last.run.returncode = 1
    /\ ~last.result.success
    /\ Len(last.spawned) = 1
    /\ pending = NoPending

\* the step is a call of clear_cache
ClearStep == last = NoCall /\ last'.op = "/api/cache/clear"

\* execute_command(c, s), called on the object as the step leaves it, calls
\* subprocess.run
SpawnsAfter(c, s) == ~execute_command_begin(SelfNow', c, s, now').returned

(***************************************************************************)
(* C19 as stated: after clear_cache, command_cache is empty and            *)
(* get_cache_stats reports total_entries = 0, the stored credential is     *)
(* what it was, and the next execute_command for any command that passes   *)
(* validation calls subprocess.run, with either require_sudo flag.         *)
(***************************************************************************)
C19_ClearedThenSpawns ==
    [][ ClearStep =>
          /\ command_cache' = << >>
          /\ get_cache_stats(command_cache', now').total_entries = 0
          /\ sudo_password' = sudo_password
          /\ \A c \in Commands, s \in BOOLEAN :
                 _is_command_safe(c, os_type) => SpawnsAfter(c, s) ]_vars

(***************************************************************************)
(* C19 amended: after clear_cache, command_cache is empty and              *)
(* get_cache_stats reports total_entries = 0, the stored credential is     *)
(* what it was, and the next execute_command for any command that passes   *)
(* validation and the elevation gate calls subprocess.run, whatever the    *)
(* age of the entries removed; a call stopped by the elevation gate (macOS,*)
(* require_sudo, no credential stored) returns requires_password and calls *)
(* nothing.                                                                *)
(***************************************************************************)
C19_ClearedThenGatedSpawns ==
    [][ ClearStep =>
          /\ command_cache' = << >>
          /\ get_cache_stats(command_cache', now').total_entries = 0
          /\ sudo_password' = sudo_password
          /\ \A c \in Commands, s \in BOOLEAN :
                 _is_command_safe(c, os_type) =>
                     IF os_type = "darwin" /\ s /\ password_missing(sudo_password')
                     THEN execute_command_begin(SelfNow', c, s, now').result
                            = password_required_result
                     ELSE SpawnsAfter(c, s) ]_vars

\* C19 witness: a call stored its result, clear_cache ran, and the same call made
\* again within cache_timeout, with the credential still stored, spawned again
C19_Witness ==
    /\ SecondCallInWindow
    /\ Completed(ref)
    /\ _is_quick_command(ref.spawned[1].command, os_type)
    /\ ref.cleared
    /\ ref.require_sudo
    /\ os_type = "darwin"
    /\ Len(last.spawned) = 1
    /\ last.spawned[1].command = ref.spawned[1].command

\* the categories get_suggested_diagnostics may draw from for an issue category
SuggestedCategories(issue_category) ==
    CASE issue_category = "network" -> { "network" }
      [] issue_category = "performance" -> { "system", "storage" }
      [] issue_category = "storage" -> { "storage" }
      [] issue_category = "system" -> { "system" }
      [] OTHER -> { "system", "network" }

(***************************************************************************)
(* C20: get_suggested_diagnostics returns, in this order: for 'network'    *)
(* the network entries of the catalog; for 'performance' the system        *)
(* entries followed by the storage entries; for 'storage' the storage      *)
(* entries; for 'system' the system entries; for 'general' and any other   *)
(* value the first two system entries followed by the first network entry. *)
(* Every entry returned has one of these categories, and the call spawns   *)
(* no process.                                                             *)
(***************************************************************************)
C20_SuggestionsByCategory ==
    (request.fn = "get_suggested_diagnostics" /\ answer.returned) =>
        LET catalog == _initialize_commands(os_type)
            issue == request.issue_category
            given == answer.value
        IN  /\ issue = "network" => given = catalog.network
            /\ issue = "performance" => given = catalog.system \o catalog.storage
            /\ issue = "storage" => given = catalog.storage
            /\ issue = "system" => given = catalog.system
            /\ issue \notin { "network", "performance", "storage", "system" } =>
                   /\ Len(given) = 3
                   /\ given[1] = catalog.system[1]
                   /\ given[2] = catalog.system[2]
                   /\ given[3] = catalog.network[1]
            /\ \A i \in 1..Len(given) :
                   given[i].category \in SuggestedCategories(issue)
            /\ Spawns = { }
            /\ pending = NoPending

\* C20 witness: on Windows a performance issue got the three system entries and
\* then the two storage entries
C20_Witness ==
    /\ request.fn = "get_suggested_diagnostics"
    /\ answer.returned
    /\ os_type = "windows"
    /\ request.issue_category = "performance"
    /\ Len(answer.value) = 5
    /\ answer.value[3].command = "sfc /scannow"
    /\ answer.value[4].command = "wmic logicaldisk get size,freespace,caption"

\* the categories in the order categorize_user_issue tries them
CategoryPriority == << "network", "performance", "storage", "system" >>

\* the keyword set of a category
CategoryKeywords(category) ==
    CASE category = "network" ->
           { "internet", "wifi", "network", "connection", "ping", "dns" }
      [] category = "performance" -> { "slow", "freeze", "crash", "performance", "lag" }
      [] category = "storage" -> { "disk", "storage", "space", "full", "memory" }
      [] category = "system" -> { "error", "blue screen", "kernel", "system" }

\* the places in CategoryPriority of the categories with a keyword in the message
MatchingCategories(user_message) ==
    { i \in 1..Len(CategoryPriority) :
        \E word \in CategoryKeywords(CategoryPriority[i]) :
            Contains(Lower(user_message), word) }

(***************************************************************************)
(* C21: categorize_user_issue returns, for every message, the first        *)
(* category in the order network, performance, storage, system whose       *)
(* keyword set has a member occurring in the lower-cased message, and      *)
(* 'general' when no set has one; 'my wifi keeps disconnecting' is         *)
(* network, 'disk is full' is storage, 'random gibberish' is general.      *)
(***************************************************************************)
C21_FirstMatchingCategory ==
    (request.fn = "categorize_user_issue" /\ answer.returned) =>
        LET matching == MatchingCategories(request.user_message) IN
        /\ answer.value \in Range(CategoryPriority) \cup { "general" }
        /\ matching = { } => answer.value = "general"
        /\ matching # { } =>
               \E i \in matching :
                   /\ \A j \in matching : i <= j
                   /\ answer.value = CategoryPriority[i]
        /\ request.user_message = "my wifi keeps disconnecting" => answer.value = "network"
        /\ request.user_message = "disk is full" => answer.value = "storage"
        /\ request.user_message = "random gibberish" => answer.value = "general"

\* C21 witness: a message with a storage keyword and a performance keyword got
\* the category of higher priority
C21_Witness ==
    /\ request.fn = "categorize_user_issue"
    /\ answer.returned
    /\ request.user_message = "the disk is slow"
    /\ MatchingCategories(request.user_message) = { 2, 3 }
    /\ answer.value = "performance"

(***************************************************************************)
(* C22: for every input, sanitize_input returns a string that contains     *)
(* none of the characters < > " ' & | ; backquote $ ( ) and has at most    *)
(* MAX_MESSAGE_LENGTH characters; for None and for the empty string it     *)
(* returns the empty string.                                               *)
(***************************************************************************)
C22_SanitizedOutput ==
    (request.fn = "sanitize_input" /\ answer.returned) =>
        /\ \A i \in 1..Len(answer.value) : CharAt(answer.value, i) \notin dangerous_chars
        /\ Len(answer.value) <= MAX_MESSAGE_LENGTH
        /\ request.user_input \in { None, "" } => answer.value = ""

\* C22 witness: an input longer than MAX_MESSAGE_LENGTH after its dangerous
\* characters were removed came back with MAX_MESSAGE_LENGTH characters
C22_Witness ==
    /\ request.fn = "sanitize_input"
    /\ answer.returned
    /\ request.user_input = Repeat("a<", MAX_MESSAGE_LENGTH + 100)
    /\ answer.value = Repeat("a", MAX_MESSAGE_LENGTH)

(***************************************************************************)
(* C23: the timeout subprocess.run is given by execute_command is the      *)
(* budget _get_command_timeout gives the command text of the caller, also  *)
(* on macOS with require_sudo and a credential stored: it depends neither  *)
(* on the elevation flag nor on the value of the credential.               *)
(***************************************************************************)
C23_BudgetOfCallerCommand ==
    \A spawn \in Spawns :
        spawn.by = "SystemCommands.execute_command" =>
            spawn.timeout = _get_command_timeout(spawn.requested, os_type)

\* the tokens of the quick tier and of the medium tier
QuickTokens == { "ping", "nslookup", "ipconfig", "ifconfig", "echo" }
MediumTokens == { "tasklist", "ps", "df", "free", "uname" }

\* the lower-cased command contains one of the tokens
HasToken(command, tokens) == \E token \in tokens : Contains(Lower(command), token)

(***************************************************************************)
(* C24: _get_command_timeout returns, for every command and OS family, the *)
(* quick budget (10 s) if the lower-cased command contains a quick token,  *)
(* otherwise the medium budget (15 s) if it contains a medium token,       *)
(* otherwise the slow or default budget (30 s); a command with tokens of   *)
(* several tiers gets the earliest tier, and the result is one of the      *)
(* configured budgets.                                                     *)
(***************************************************************************)
C24_TieredTimeout ==
    (request.fn = "_get_command_timeout" /\ answer.returned) =>
        /\ answer.value \in { QUICK_COMMAND_TIMEOUT, MEDIUM_COMMAND_TIMEOUT,
                              SLOW_COMMAND_TIMEOUT, COMMAND_TIMEOUT }
        /\ HasToken(request.command, QuickTokens) =>
               answer.value = QUICK_COMMAND_TIMEOUT /\ answer.value = 10
        /\ (~HasToken(request.command, QuickTokens)
              /\ HasToken(request.command, MediumTokens)) =>
               answer.value = MEDIUM_COMMAND_TIMEOUT /\ answer.value = 15
        /\ (~HasToken(request.command, QuickTokens)
              /\ ~HasToken(request.command, MediumTokens)) =>
               answer.value \in { SLOW_COMMAND_TIMEOUT, COMMAND_TIMEOUT } /\ answer.value = 30

\* C24 witness: a command with a quick token and a medium token got the quick budget
C24_Witness ==
    /\ request.fn = "_get_command_timeout"
    /\ answer.returned
    /\ request.command = "ping localhost && df -h"
    /\ HasToken(request.command, MediumTokens)
    /\ answer.value = QUICK_COMMAND_TIMEOUT

(***************************************************************************)
(* C25: whenever get_cache_stats returns, also while other callers store   *)
(* entries, total_entries = valid_entries + expired_entries, an entry      *)
(* being counted valid when its age is less than cache_timeout and         *)
(* expired otherwise.                                                      *)
(***************************************************************************)
C25_StatsPartition ==
    \A t \in DOMAIN threads :
        (threads[t].fn = "get_cache_stats" /\ threads[t].pc = "done"
           /\ threads[t].raised = None) =>
            threads[t].result.total_entries =
                threads[t].result.valid_entries + threads[t].result.expired_entries

(***************************************************************************)
(* C26: on macOS, a result execute_command(c, require_sudo=True) returns   *)
(* from a subprocess is the result of running c with the secret stored at  *)
(* the time of the call: after set_sudo_password has replaced the secret   *)
(* with a different one, no result produced with the previous secret comes *)
(* back (such as the failure of a wrong password).                         *)
(***************************************************************************)
C26_ResultOfCurrentSecret ==
    (ExecuteReturned /\ os_type = "darwin" /\ last.require_sudo
       /\ "return_code" \in DOMAIN last.result) =>
        last.result =
            result_data(sudo_run(elevated_command(last.command, sudo_password)),
                        last.result.execution_time)

(***************************************************************************)
(* C27: every command text of the diagnostic catalog built for an OS       *)
(* family is accepted by SystemCommands._is_command_safe on that family:   *)
(* whichever suggestion of get_suggested_diagnostics the caller picks, the *)
(* executor's validation accepts its command.                              *)
(***************************************************************************)
C27_CatalogAccepted ==
    /\ \A category \in DOMAIN _initialize_commands(os_type) :
           \A i \in 1..Len(_initialize_commands(os_type)[category]) :
               _is_command_safe(_initialize_commands(os_type)[category][i].command,
                                os_type)
    /\ (request.fn = "get_suggested_diagnostics" /\ vCommand # "") =>
           verdicts.executor # "reject"

(***************************************************************************)
(* C28: for every command string and every OS family, the two validators   *)
(* decide alike: SecurityValidator.validate_command_for_os(c, f) accepts   *)
(* exactly when SystemCommands._is_command_safe(c) accepts on a process    *)
(* whose OS is f.                                                          *)
(***************************************************************************)
C28_ValidatorsAgree ==
    (verdicts.for_os # "pending" /\ verdicts.executor # "pending") =>
        verdicts.for_os = verdicts.executor

\* the (command, require_sudo) pairs whose keys are compared: those of the calls
\* made, and commands that end like a key
KeyPairs ==
    (Commands \cup { "ping localhost_darwin_True", "ping localhost_darwin",
                     "ping localhost_", "ping localhost_darwin_False_darwin" })
    \X BOOLEAN

(***************************************************************************)
(* C29: every key of command_cache is the key of a (command, require_sudo) *)
(* pair whose command passes _is_command_safe, and of no other pair; an    *)
(* entry is written only under the key of the call that produced it; so a  *)
(* call answered from the cache is a call whose command validation         *)
(* accepts, and it gets the result stored under the key of its own command *)
(* and elevation flag.  The cache is empty at first: the keys are examined *)
(* in every step that changes it.                                          *)
(***************************************************************************)
C29_CacheKeysSound ==
    [][ /\ command_cache' # command_cache =>
              \A k \in DOMAIN command_cache' :
                  /\ \E c \in Commands, s \in BOOLEAN :
                         k = cache_key(c, os_type, s) /\ _is_command_safe(c, os_type)
                  /\ Cardinality({ p \in KeyPairs :
                                     cache_key(p[1], os_type, p[2]) = k }) = 1
                  /\ (k \notin DOMAIN command_cache
                        \/ command_cache'[k] # command_cache[k]) =>
                         /\ ExecuteReturned'
                         /\ k = cache_key(last'.command, os_type, last'.require_sudo)
                         /\ command_cache'[k].result = last'.result
        /\ AnsweredFromCache' =>
              /\ _is_command_safe(last'.command, os_type)
              /\ cache_key(last'.command, os_type, last'.require_sudo)
                   \in DOMAIN command_cache'
              /\ command_cache'[cache_key(last'.command, os_type, last'.require_sudo)].result
                   = last'.result ]_vars

\* C29 witness: a call answered from the cache while the cache holds the entries
\* of both elevation flags of its command
C29_Witness ==
    /\ AnsweredFromCache
    /\ last.require_sudo
    /\ cache_key(last.command, os_type, FALSE) \in DOMAIN command_cache
    /\ cache_key(last.command, os_type, TRUE) \in DOMAIN command_cache

(***************************************************************************)
(* C30: two callers that run execute_command concurrently with the same    *)
(* cacheable (command, OS, require_sudo) never both have a subprocess      *)
(* running for that key: the cache check and the cache store of one call   *)
(* are one atomic step for the other, which waits and is answered from the *)
(* cache.                                                                  *)
(***************************************************************************)
C30_OneSpawnPerKey ==
    \A t, u \in DOMAIN threads :
        (t # u /\ threads[t].pc = "run" /\ threads[u].pc = "run"
           /\ thread_key(t) = thread_key(u)) =>
            ~_is_quick_command(threads[t].spawn.command, os_type)

====
